---- MODULE Spec2Model ----
(***************************************************************************)
(* Fourier-space correlation engines of atooms/postprocessing:             *)
(*   - the time-origin grid builder (_setup_t_grid, correlation.py),       *)
(*   - the constructors and _compute of SelfIntermediateScattering and     *)
(*     IntermediateScattering (fkt.py).                                    *)
(* Indices are 0-based as in the source; a TLA+ sequence s holds the       *)
(* source's s[i] at s[i+1].                                                *)
(***************************************************************************)
EXTENDS Integers, Sequences, FiniteSets, TLC

(***************************************************************************)
(* Bounds of the model.                                                    *)
(***************************************************************************)
\* frames in a trajectory: 1..MaxFrames
MaxFrames == 5
\* step increment between consecutive frames: 1..MaxInc
MaxInc == 2
\* block period (block_size) of a trajectory: 1..MaxP
MaxP == 4
\* a requested time is n/TDen timesteps, n in 0..MaxTNum
TDen == 3
MaxTNum == 6
\* number of requested times in t_grid: 0..MaxReq
MaxReq == 2
\* frames of a trajectory handed to a scattering engine: 2..MaxEngFrames
MaxEngFrames == 3
\* particles of a trajectory handed to a scattering engine: 1..MaxN
MaxN == 4

\* entries of a curve handed to the relaxation-time extraction: 1..MaxLags
MaxLags == 3
\* workers that share the particle blocks of the self part: 1..MaxWorkers
MaxWorkers == 2
\* frames of the trajectories of many particles: 2..MaxBlockFrames
MaxBlockFrames == 4

VARIABLES
    steps,           \* trajectory.steps
    block_period,    \* trajectory.block_period (block_size in fkt.py)
    t_grid,          \* requested times, as numerators n of n/TDen timesteps
    discrete_tgrid,  \* the list of (offset, lag) pairs, or Unset
    pc,              \* position of the program
    engine,          \* symbol of the engine: "fskt", "fkt", or "none"
    cbk,             \* the registered filters (species ids of filter_species)
    nk,              \* wave vectors kept per shell
    void_shells,     \* the shells (0-based) of self.kvec without a wave vector
    npart,           \* particles per frame of the trajectory
    mover,           \* x coordinate of particle 0 in each frame (0 in the first)
    pos_unf,         \* self._pos_unf
    pos_0,           \* self._pos_0
    pos_1,           \* self._pos_1
    shared,          \* self._pos_1 is self._pos_0
    j,               \* first particle of the next block (fskt)
    acf,             \* per shell: dt -> accumulated sum
    cnt,             \* per shell: dt -> accumulated count
    rho_0,           \* per frame: wave vector -> density of filter 0
    rho_1,           \* per frame: wave vector -> density of filter 1
    t_sorted,        \* the sorted step differences behind self.grid[1]
    value_nonorm,    \* the curve divided by the counts only
    value,           \* self.value
    self_skip,       \* self.skip, the stride over the frames (sk)
    field_cfg,       \* where the field comes from: "none", "self", "file"
    th_steps,        \* the steps of the trajectory the field is read from
    variable_cell,   \* what is_cell_variable(self.trajectory) answers
    backend,         \* whether fourierspace_wrap can be imported
    field,           \* self._field: per frame the weights, <<>> for None
    kvec_frame,      \* the frame the wave vectors were last set up for
    it,              \* the frame the loop of the structure factor is at
    tab_log,         \* <<frame, kvec_frame>> of every tabulation so far
    rho_av,          \* per shell: the sum of rho_0 (sk)
    rho2_av,         \* per shell: the sum of rho_0 * conj(rho_1) (sk)
    grid,            \* self.grid as _compute of sk assigns it
    tau,             \* analysis['relaxation times tau'], per shell
    rho_shared,      \* rho_1 is rho_0 (one object)
    expo_log,        \* the calls of expo_sphere: <<frame, position array>>
    block_log,       \* the slices <<j, end>> of particles tabulated so far (fskt)
    terms,           \* per block: the terms added to acf and cnt, in loop order
    owner,           \* per block: the worker that accumulates it
    pending,         \* the blocks not accumulated yet
    part,            \* per worker: its private <<acf, cnt>>
    UPDATE,          \* the module flag UPDATE
    traj_mtime,      \* os.path.getmtime(self.trajectory.filename)
    out_file,        \* the output file: whether it exists, its mtime, its data
    need_update,     \* self._need_update
    helpers_ok,      \* whether the helpers of analyze can be imported
    called           \* the method the caller runs: "compute" or "do"

trajVars == <<steps, block_period, t_grid, npart, mover>>
cfgVars == <<engine, cbk, nk, void_shells>>
arrVars == <<pos_unf, pos_0, pos_1, shared>>
accVars == <<j, acf, cnt>>
rhoVars == <<rho_0, rho_1>>
outVars == <<t_sorted, value_nonorm, value>>
skCfgVars == <<self_skip, field_cfg, th_steps, variable_cell, backend>>
skAccVars == <<field, kvec_frame, it, tab_log, rho_av, rho2_av, grid>>
skVars == <<skCfgVars, skAccVars>>
identVars == <<rho_shared, expo_log>>
mergeVars == <<terms, owner, pending, part>>
doCfgVars == <<UPDATE, traj_mtime, helpers_ok, called>>
doVars == <<doCfgVars, out_file, need_update>>
extVars == <<identVars, mergeVars, block_log, doVars>>
extNoIdent == <<mergeVars, block_log, doVars>>
extNoBlocks == <<identVars, mergeVars, doVars>>
extNoMerge == <<identVars, block_log, doVars>>
extNoDo == <<identVars, mergeVars, block_log>>

vars ==
    <<trajVars, cfgVars, arrVars, accVars, rhoVars, outVars, skVars,
      discrete_tgrid, pc, tau, extVars>>

Unset == "unset"

\* self._discrete_tgrid before it is assigned
NoGrid == <<<<-1, -1>>>>

(***************************************************************************)
(* Small helpers.                                                          *)
(***************************************************************************)
Abs(x) == IF x < 0 THEN -x ELSE x

SetMin(S) == CHOOSE x \in S : \A y \in S : x <= y

\* sorted(S) for a finite set of integers
RECURSIVE Sorted(_)
Sorted(S) == IF S = {} THEN <<>> ELSE <<SetMin(S)>> \o Sorted(S \ {SetMin(S)})

Range(s) == {s[i] : i \in DOMAIN s}

\* all strictly increasing step sequences 0 = s[0] < s[1] < ... of length n
RECURSIVE StepSeqs(_)
StepSeqs(n) ==
    IF n = 1 THEN {<<0>>}
    ELSE {Append(s, s[Len(s)] + d) : s \in StepSeqs(n - 1), d \in 1..MaxInc}

AllStepSeqs == UNION {StepSeqs(n) : n \in 1..MaxFrames}

TGrids == {S \in SUBSET (0..MaxTNum) : Cardinality(S) <= MaxReq}

(***************************************************************************)
(* _setup_t_grid                                                           *)
(***************************************************************************)
\* int(round(t/trajectory.timestep)) for t = n/TDen timesteps, n >= 0
\* (round() of Python 2: halves go away from zero)
PyRound(n) == (2 * n + TDen) \div (2 * TDen)

\* an insertion that keeps the index i in place of the lag i - off
OffSampPutFull(acc, d, off, i) ==
    IF d \in DOMAIN acc THEN acc ELSE acc @@ (d :> <<off, i>>)

\* one insertion into off_samp: the first pair found for a difference is kept
OffSampPut(acc, d, off, i) ==
    IF d \in DOMAIN acc THEN acc ELSE acc @@ (d :> <<off, i - off>>)

\* a scan of i up to the last frame
ScanEndFull(st, off) == Len(st)

\* upper end (exclusive) of the scan of i for offset off

ScanEnd(st, off) == Len(st) - off

\* the double loop over off in range(block_period), i in range(off, len(steps)-off)
RECURSIVE ScanSamples(_, _, _, _, _)
ScanSamples(st, P, off, i, acc) ==
    IF off >= P THEN acc
    ELSE IF i >= ScanEnd(st, off) THEN ScanSamples(st, P, off + 1, off + 1, acc)
    ELSE ScanSamples(st, P, off, i + 1,
                     OffSampPut(acc, st[i + 1] - st[off + 1], off, i))

EmptyMap == [x \in {} |-> <<>>]

off_samp(st, P) == ScanSamples(st, P, 0, 0, EmptyMap)

\* min(entry, key=lambda x: abs(x-t)) over the sorted list entry: the first
\* entry of least distance
RECURSIVE PyMinBy(_, _, _, _)
PyMinBy(entry, t, k, best) ==
    IF k > Len(entry) THEN best
    ELSE PyMinBy(entry, t, k + 1,
                 IF Abs(entry[k] - t) < Abs(best - t) THEN entry[k] ELSE best)

\* the last entry of least distance instead of the first
RECURSIVE PyMinByLast(_, _, _, _)
PyMinByLast(entry, t, k, best) ==
    IF k > Len(entry) THEN best
    ELSE PyMinByLast(entry, t, k + 1,
                     IF Abs(entry[k] - t) <= Abs(best - t) THEN entry[k] ELSE best)

ClosestEntryLast(entry, t) == PyMinByLast(entry, t, 2, entry[1])

ClosestEntry(entry, t) == PyMinBy(entry, t, 2, entry[1])

\* the list of matches before the trailing sort
MatchKeepMultiple(entry, template) ==
    [k \in 1..Len(template) |-> ClosestEntry(entry, template[k])]

\* templated with keep_multiple=True and no sort
templatedKeepMultiple(entry, template) == MatchKeepMultiple(entry, template)

\* with keep_multiple=False: list(set(match)), then sorted
templated(entry, template) == Sorted(Range(MatchKeepMultiple(entry, template)))

i_grid(tg) == {PyRound(n) : n \in tg}

setup_t_grid(st, P, tg) ==
    LET samp == off_samp(st, P)
        m    == templated(Sorted(DOMAIN samp), Sorted(i_grid(tg)))
    IN  [k \in 1..Len(m) |-> samp[m[k]]]

(***************************************************************************)
(* The grid builder applied to any trajectory and any requested times      *)
(* (as the real-space correlators of realspace.py call it, with no         *)
(* periodicity check in front).                                            *)
(***************************************************************************)
\* nothing has been tabulated, no worker holds anything
Untouched ==
    /\ rho_shared = FALSE /\ expo_log = <<>> /\ block_log = <<>>
    /\ terms = <<>> /\ owner = <<>> /\ pending = {} /\ part = <<>>

\* no output file
NoFile == [exists |-> FALSE, mtime |-> 0, data |-> <<>>]

\* UPDATE = False, the default of the module; compute() is what is called
NoUpdateMode ==
    /\ UPDATE = FALSE /\ traj_mtime = 1 /\ out_file = NoFile
    /\ need_update = TRUE /\ helpers_ok = TRUE /\ called = "compute"

\* no structure factor is computed
NoSk ==
    /\ self_skip = 1 /\ field_cfg = "none" /\ th_steps = <<>>
    /\ variable_cell = FALSE /\ backend = TRUE
    /\ field = <<>> /\ kvec_frame = -1 /\ it = 0 /\ tab_log = <<>>
    /\ rho_av = <<>> /\ rho2_av = <<>> /\ grid = <<>>
    /\ tau = <<>>

NoEngine ==
    /\ engine = "none" /\ cbk = <<>> /\ nk = 0 /\ npart = 0 /\ mover = <<>>
    /\ void_shells = {}
    /\ pos_unf = Unset /\ pos_0 = Unset /\ pos_1 = Unset /\ shared = FALSE
    /\ j = 0 /\ acf = Unset /\ cnt = Unset /\ rho_0 = Unset /\ rho_1 = Unset
    /\ t_sorted = Unset /\ value_nonorm = Unset /\ value = Unset

InitGrid ==
    /\ steps \in AllStepSeqs
    /\ block_period \in 1..MaxP
    /\ t_grid \in TGrids
    /\ discrete_tgrid = NoGrid
    /\ pc = "start"
    /\ NoEngine
    /\ NoSk
    /\ Untouched
    /\ NoUpdateMode

SetupTGrid ==
    /\ pc = "start"
    /\ discrete_tgrid' = setup_t_grid(steps, block_period, t_grid)
    /\ pc' = "grid"
    /\ UNCHANGED <<extVars, tau, skVars, trajVars, cfgVars, arrVars, accVars, rhoVars, outVars>>

NextGrid == SetupTGrid

SpecGrid == InitGrid /\ [][NextGrid]_vars

(***************************************************************************)
(* Numbers.  Positions are multiples of half the box side along each axis, *)
(* so that every phase factor exp(i*n*k0*r) tabulated for a wave index     *)
(* n in {0,1} is 1 or -1 +/- eps*i, eps = sin(fl(pi)) = 1.22e-16.  A       *)
(* complex number is <<re, im>> with im counted in units of eps; a real    *)
(* (float) sum is <<i, t>> = i + t*eps^2, where t is kept only while i = 0 *)
(* (a term of order eps^2 is lost next to a term of order 1).              *)
(***************************************************************************)
RECURSIVE Gcd(_, _)
Gcd(a, b) == IF b = 0 THEN a ELSE Gcd(b, a % b)

Min(a, b) == IF a < b THEN a ELSE b

\* nan and +/-inf of numpy.float64: the values of denominator 0
NaN == <<0, 0, 0>>
PosInf == <<1, 0, 0>>
NegInf == <<-1, 0, 0>>

\* a finite value n/d * eps^lvl, in lowest terms
Num(n, d, lvl) ==
    IF n = 0 THEN <<0, 1, 0>>
    ELSE LET g == Gcd(Abs(n), Abs(d))
             sg == IF d < 0 THEN -1 ELSE 1
         IN  <<sg * (n \div g), sg * (d \div g), lvl>>

One == <<1, 1, 0>>

IsFinite(v) == v[2] # 0

\* the float behind an accumulated sum <<i, t>>
FloatOf(a) == IF a[1] # 0 THEN Num(a[1], 1, 0) ELSE Num(a[2], 1, 2)

\* a / b on numpy.float64: x/0 is nan or +/-inf, never an exception
NumDiv(a, b) ==
    IF ~IsFinite(a) \/ ~IsFinite(b) THEN NaN
    ELSE IF b[1] = 0 THEN
        (IF a[1] = 0 THEN NaN ELSE IF a[1] > 0 THEN PosInf ELSE NegInf)
    ELSE Num(a[1] * b[2], a[2] * b[1], a[3] - b[3])

\* a - b on floats: a term of order eps^2 is lost next to one of order 1
NumSub(a, b) ==
    IF ~IsFinite(a) \/ ~IsFinite(b) THEN NaN
    ELSE IF b[1] = 0 THEN a
    ELSE IF a[1] = 0 THEN Num(-b[1], b[2], b[3])
    ELSE IF a[3] = b[3] THEN Num(a[1] * b[2] - b[1] * a[2], a[2] * b[2], a[3])
    ELSE IF a[3] < b[3] THEN a
    ELSE Num(-b[1], b[2], b[3])

\* the integer square root
Isqrt(n) == CHOOSE r \in 0..n : r * r <= n /\ n < (r + 1) * (r + 1)

IsSquare(n) == Isqrt(n) * Isqrt(n) = n

\* v / (n/d)**0.5: <<numerator, denominator, level, rn, rd>> stands for
\* (numerator/denominator) / sqrt(rn/rd); a square root that is rational is
\* divided out
OverSqrt(v, n, d) ==
    LET g == Gcd(n, d) IN
    IF IsSquare(n \div g) /\ IsSquare(d \div g)
    THEN NumDiv(v, Num(Isqrt(n \div g), Isqrt(d \div g), 0)) \o <<1, 1>>
    ELSE v \o <<n \div g, d \div g>>

\* a + c on floats
FAdd(a, c) ==
    IF a[1] + c[1] # 0 THEN <<a[1] + c[1], 0>> ELSE <<0, a[2] + c[2]>>

CMul(a, b) == <<a[1] * b[1], a[1] * b[2] + a[2] * b[1]>>

CAdd(a, b) == <<a[1] + b[1], a[2] + b[2]>>

conjugate(a) == <<a[1], -a[2]>>

\* (a * b).real as a float sum
RealOfProduct(a, b) ==
    IF a[1] * b[1] # 0 THEN <<a[1] * b[1], 0>> ELSE <<0, -(a[2] * b[2])>>

(***************************************************************************)
(* The trajectory and the collaborators of the engines.                    *)
(***************************************************************************)
\* increments of the step sequences handed to the engines
EngIncs == {1, 2}

RECURSIVE EngStepSeqs(_)
EngStepSeqs(n) ==
    IF n = 1 THEN {<<0>>}
    ELSE {Append(s, s[Len(s)] + d) : s \in EngStepSeqs(n - 1), d \in EngIncs}

\* block sizes of the trajectories handed to the engines
EngPeriods == {1, 2}

\* nk, the number of wave vectors kept per shell
NkValues == {1, 2}

\* requested times of the engines: multiples of a timestep
EngTGrids ==
    {S \in SUBSET {0, TDen, 2 * TDen} : S # {} /\ Cardinality(S) <= MaxReq}

\* the particles other than particle 0 do not move
StaticPos(p) ==
    CASE p % 4 = 1 -> <<0, 0, 0>>
      [] p % 4 = 2 -> <<1, 0, 0>>
      [] p % 4 = 3 -> <<-1, 0, 0>>
      [] OTHER     -> <<0, 1, 0>>

\* position of particle p (0-based) in frame f (0-based)
TrajPos(f, p) == IF p = 0 THEN <<mover[f + 1], 0, 0>> ELSE StaticPos(p)

\* species of particle p
Species(p) == IF p % 2 = 0 THEN 1 ELSE 2

\* the system of frame f: the list of its particles
System(f) == [p \in 1..npart |-> p - 1]

\* filter_species(system, i), and no filter
filter_species(sys, i) == SelectSeq(sys, LAMBDA p : Species(p) = i)

\* s.dump('pos') of frame f
dump_pos(f, sys) == [q \in 1..Len(sys) |-> TrajPos(f, sys[q])]

\* the wave vectors of each shell (self.kvec[knorm]); k_sorted is 0..1
kvec == << << <<1, 0, 0>>, <<0, 1, 0>> >>, << <<1, 1, 0>> >> >>

NShells == Len(kvec)

\* len(self.kvec[knorm]) of shell kk (0-based): a shell can be void
ShellSize(kk) == IF kk \in void_shells THEN 0 ELSE Len(kvec[kk + 1])

\* _decimate_k: nk indices per shell, at most the size of the shell
k_selected(kk) == [q \in 1..Min(nk, ShellSize(kk)) |-> q - 1]

\* expo_sphere: x[..., axis, n] = exp(i*n*k0*r) for one coordinate r
expo(r, n) == IF n = 0 \/ r = 0 THEN <<1, 0>> ELSE <<-1, r>>

\* check_block_size raises unless the steps are periodic over blocks
check_block_size_ok(st, P) ==
    \A i \in 0..(Len(st) - 1) :
        i + P < Len(st) => st[i + P + 1] - st[i + 1] = st[P + 1] - st[1]

\* adjust_skip(trajectory, n_origin=-1)
adjust_skip == IF block_period > 1 THEN block_period ELSE 1

\* range(start, stop, step) for step > 0
RECURSIVE PyRange(_, _, _)
PyRange(start, stop, step) ==
    IF start >= stop THEN <<>>
    ELSE <<start>> \o PyRange(start + step, stop, step)

\* origins that start at the first frame whatever the offset
OriginsFromZero(off, i, n, skip) == PyRange(0, n - i, skip)

\* range(off, x.shape[0]-i, skip) and range(off, len(rho_0)-i, skip): the
\* origins i0 of the grid pair (off, i) over n frames
Origins(off, i, n, skip) == PyRange(off, n - i, skip)

RECURSIVE Flatten(_)
Flatten(ss) == IF ss = <<>> THEN <<>> ELSE Head(ss) \o Flatten(Tail(ss))

\* acf[kk][dt] = v: the term in place of the sum
AcfPut(acc, key, v) ==
    IF key \in DOMAIN acc THEN [acc EXCEPT ![key] = v] ELSE acc @@ (key :> v)

\* acf[kk][dt] += v on a defaultdict(float)
AcfAdd(acc, key, v) ==
    IF key \in DOMAIN acc THEN [acc EXCEPT ![key] = FAdd(@, v)]
    ELSE acc @@ (key :> FAdd(<<0, 0>>, v))

\* cnt[kk][dt] += n on a defaultdict(int)
CntAdd(acc, key, n) ==
    IF key \in DOMAIN acc THEN [acc EXCEPT ![key] = @ + n]
    ELSE acc @@ (key :> n)

(***************************************************************************)
(* Construction of an engine and Correlation._setup_arrays.                *)
(***************************************************************************)
EngineConfigs ==
    {<<"fskt", <<>>>>, <<"fskt", <<2>>>>, <<"fkt", <<>>>>, <<"fkt", <<1, 2>>>>}

Init ==
    /\ \E n \in 2..MaxEngFrames :
        /\ steps \in EngStepSeqs(n)
        /\ mover \in {m \in [1..n -> {0, 1}] : m[1] = 0}
    /\ block_period \in EngPeriods
    /\ t_grid \in EngTGrids
    /\ npart \in 1..MaxN
    /\ nk \in NkValues
    /\ void_shells = {}
    /\ \E c \in EngineConfigs : engine = c[1] /\ cbk = c[2]
    /\ discrete_tgrid = NoGrid
    /\ pc = "new"
    /\ NoSk
    /\ Untouched
    /\ NoUpdateMode
    /\ pos_unf = Unset /\ pos_0 = Unset /\ pos_1 = Unset /\ shared = FALSE
    /\ j = 0 /\ acf = Unset /\ cnt = Unset /\ rho_0 = Unset /\ rho_1 = Unset
    /\ t_sorted = Unset /\ value_nonorm = Unset /\ value = Unset

\* an update test that also skips an output file as old as the trajectory file
NeedUpdateNonStrict ==
    ~(UPDATE /\ out_file.exists /\ traj_mtime <= out_file.mtime)

\* Correlation.__init__, lines 177-181: in update mode an output file newer
\* than the trajectory file makes the computation needless
NeedUpdate ==
    ~(UPDATE /\ out_file.exists /\ traj_mtime < out_file.mtime)

\* a constructor that builds the grid first and checks afterwards
ConstructGridFirst ==
    /\ pc = "new" /\ engine \in {"fskt", "fkt"}
    /\ discrete_tgrid' = setup_t_grid(steps, block_period, t_grid)
    /\ pc' = IF check_block_size_ok(steps, block_period)
             THEN "constructed" ELSE "ctor_error"
    /\ need_update' = NeedUpdate
    /\ UNCHANGED <<extNoDo, doCfgVars, out_file, tau, skVars, trajVars, cfgVars, arrVars, accVars, rhoVars, outVars>>

\* SelfIntermediateScattering.__init__ and IntermediateScattering.__init__:
\* check_block_size, then the discrete time grid (tgrid given by the caller)
Construct ==
    /\ pc = "new" /\ engine \in {"fskt", "fkt"}
    /\ IF check_block_size_ok(steps, block_period)
       THEN /\ discrete_tgrid' = setup_t_grid(steps, block_period, t_grid)
            /\ pc' = "constructed"
       ELSE /\ discrete_tgrid' = discrete_tgrid
            /\ pc' = "ctor_error"
    /\ need_update' = NeedUpdate
    /\ UNCHANGED <<extNoDo, doCfgVars, out_file, tau, skVars, trajVars, cfgVars, arrVars, accVars, rhoVars, outVars>>

NFrames == Len(steps)

\* the positions of every frame after filter c (0-based) of cbk
FilteredPos(c) ==
    [f \in 1..NFrames |-> dump_pos(f - 1, filter_species(System(f - 1), cbk[c + 1]))]

UnfilteredPos == [f \in 1..NFrames |-> dump_pos(f - 1, System(f - 1))]

\* the array _setup_arrays_onebody dumps
OneBodyPos == IF Len(cbk) > 0 THEN FilteredPos(0) ELSE UnfilteredPos

HasNullSample(data) == \E f \in DOMAIN data : Len(data[f]) = 0

\* Correlation._setup_arrays for the self part: phasespace is 'pos-unf', so
\* self._pos stays empty and only self._pos is looked at for null samples
SetupArraysSelf ==
    /\ pc = "constructed" /\ engine = "fskt" /\ need_update
    /\ pos_unf' = OneBodyPos
    /\ pc' = "arrays"
    /\ UNCHANGED <<pos_0, pos_1, shared>>
    /\ UNCHANGED <<extVars, tau, skVars, trajVars, cfgVars, accVars, rhoVars, outVars, discrete_tgrid>>

\* the engines of nbodies = 2; their phasespace holds 'pos'
TwoBodyEngines == {"fkt", "sk", "sk_opt"}

\* a setup whose first filter prunes the particles of the trajectory itself
SetupArraysCollInPlace ==
    /\ pc = "constructed" /\ engine \in TwoBodyEngines /\ need_update
    /\ IF Len(cbk) <= 1
       THEN IF HasNullSample(OneBodyPos)
            THEN /\ pc' = "setup_error"
                 /\ UNCHANGED <<pos_0, pos_1, shared>>
            ELSE /\ pos_0' = OneBodyPos /\ pos_1' = OneBodyPos /\ shared' = TRUE
                 /\ pc' = "arrays"
       ELSE /\ pos_0' = FilteredPos(0) /\ pos_1' = FilteredPos(1) /\ shared' = FALSE
            /\ pc' = IF HasNullSample(FilteredPos(0)) \/ HasNullSample(FilteredPos(1))
                     THEN "setup_error" ELSE "arrays"
    /\ npart' = IF Len(cbk) = 0 THEN npart
                ELSE Len(filter_species(System(0), cbk[1]))
    /\ UNCHANGED <<pos_unf, steps, block_period, t_grid, mover>>
    /\ UNCHANGED <<extVars, tau, skVars, cfgVars, accVars, rhoVars, outVars, discrete_tgrid>>

\* Correlation._setup_arrays for the engines of two bodies
SetupArraysColl ==
    /\ pc = "constructed" /\ engine \in TwoBodyEngines /\ need_update
    /\ IF Len(cbk) <= 1
       THEN IF HasNullSample(OneBodyPos)
            THEN /\ pc' = "setup_error"
                 /\ UNCHANGED <<pos_0, pos_1, shared>>
            ELSE /\ pos_0' = OneBodyPos /\ pos_1' = OneBodyPos /\ shared' = TRUE
                 /\ pc' = "arrays"
       ELSE /\ pos_0' = FilteredPos(0) /\ pos_1' = FilteredPos(1) /\ shared' = FALSE
            /\ pc' = IF HasNullSample(FilteredPos(0)) \/ HasNullSample(FilteredPos(1))
                     THEN "setup_error" ELSE "arrays"
    /\ UNCHANGED pos_unf
    /\ UNCHANGED <<extVars, tau, skVars, trajVars, cfgVars, accVars, rhoVars, outVars, discrete_tgrid>>

(***************************************************************************)
(* Accumulation shared by the two engines.                                 *)
(***************************************************************************)
\* one contribution: acf[kk][dt] += v; cnt[kk][dt] += n
RECURSIVE Accumulate(_, _, _)
Accumulate(list, a, c) ==
    IF list = <<>> THEN <<a, c>>
    ELSE LET e == Head(list) IN
         Accumulate(Tail(list),
                    [a EXCEPT ![e.kk] = AcfAdd(@, e.dt, e.v)],
                    [c EXCEPT ![e.kk] = CntAdd(@, e.dt, e.n)])

EmptyAcc == [kk \in 1..NShells |-> EmptyMap]

\* steps[i0+i] - steps[i0]
StepDiff(i0, i) == steps[i0 + i + 1] - steps[i0 + 1]

\* a division by the counts and by the number of particles
CountNormalizedByParticles(a, c, kk, ts) ==
    [q \in 1..Len(ts) |->
        NumDiv(FloatOf(a[kk][ts[q]]), Num(c[kk][ts[q]] * npart, 1, 0))]

\* acf[kk][ti] / cnt[kk][ti] for ti in t_sorted; a missing key reads 0.0/0.0
CountNormalized(a, c, kk, ts) ==
    [q \in 1..Len(ts) |-> NumDiv(FloatOf(a[kk][ts[q]]), Num(c[kk][ts[q]], 1, 0))]

\* some shell misses a key of shell 0: float division by zero
MissingKey(a, ts) == \E kk \in 1..NShells : \E q \in 1..Len(ts) : ts[q] \notin DOMAIN a[kk]

\* a curve left as the division by the counts gave it
Unrenormalized(curve) == curve

\* a curve divided by its last entry
RenormalizedByLast(curve) ==
    [q \in 1..Len(curve) |-> NumDiv(curve[q], curve[Len(curve)])]

\* a curve divided by its first entry
Renormalized(curve) == [q \in 1..Len(curve) |-> NumDiv(curve[q], curve[1])]

(***************************************************************************)
(* SelfIntermediateScattering._compute                                     *)
(***************************************************************************)
\* particles of a block of the self part
BlockMax == 20

SelfNPart == Len(pos_unf[1])

\* one block that holds every particle
BlockWhole == SelfNPart

block == Min(BlockMax, SelfNPart)

SelfSkip == IF block_period > 1 THEN block_period ELSE adjust_skip

\* x[f, p, axis, n] of the table of the block: pos_unf[f][p]
SelfExpo(f, p, axis, n) == expo(pos_unf[f + 1][p + 1][axis + 1], n)

\* x[i0+i,p,0,ik0]*x[i0,p,0,ik0].conjugate() * ... over the three axes
SelfTerm(i0, i, p, ik) ==
    CMul(CMul(CMul(SelfExpo(i0 + i, p, 0, ik[1]), conjugate(SelfExpo(i0, p, 0, ik[1]))),
              CMul(SelfExpo(i0 + i, p, 1, ik[2]), conjugate(SelfExpo(i0, p, 1, ik[2])))),
         CMul(SelfExpo(i0 + i, p, 2, ik[3]), conjugate(SelfExpo(i0, p, 2, ik[3]))))

\* numpy.sum(...) over the particles p0 .. p1-1
RECURSIVE SelfSum(_, _, _, _, _)
SelfSum(i0, i, p0, p1, ik) ==
    IF p0 >= p1 THEN <<0, 0>>
    ELSE CAdd(SelfTerm(i0, i, p0, ik), SelfSum(i0, i, p0 + 1, p1, ik))

\* a count of origins in place of particles
SelfCountOne(nblk) == 1

\* what one contribution adds to cnt: x.shape[1], the particles of the block
SelfCount(nblk) == nblk

\* pos[:, j:j + block, :]: the slice ends at the last particle at most
BlockSlice(j0) == <<j0, Min(j0 + block, SelfNPart)>>

\* the contributions of the block that starts at particle j0, in loop order
SelfContribs(j0) ==
    LET j1 == BlockSlice(j0)[2] IN
    Flatten([kk1 \in 1..NShells |->
      Flatten([q \in 1..Len(k_selected(kk1 - 1)) |->
        Flatten([g \in 1..Len(discrete_tgrid) |->
          LET ik  == kvec[kk1][k_selected(kk1 - 1)[q] + 1]
              off == discrete_tgrid[g][1]
              i   == discrete_tgrid[g][2]
              org == Origins(off, i, NFrames, SelfSkip)
          IN  [o \in 1..Len(org) |->
                 [kk |-> kk1,
                  dt |-> StepDiff(org[o], i),
                  v  |-> <<SelfSum(org[o], i, j0, j1, ik)[1], 0>>,
                  n  |-> SelfCount(j1 - j0)]]])])])

\* lines 72-96: a block of zero particles makes range(0, 0, 0) raise
SelfBegin ==
    /\ pc = "arrays" /\ engine = "fskt"
    /\ IF block = 0
       THEN /\ pc' = "compute_error"
            /\ UNCHANGED accVars
       ELSE /\ acf' = EmptyAcc /\ cnt' = EmptyAcc /\ j' = 0
            /\ pc' = "blocks"
    /\ UNCHANGED <<extVars, tau, skVars, trajVars, cfgVars, arrVars, rhoVars, outVars, discrete_tgrid>>

\* lines 97-109: one block of particles
SelfBlock ==
    /\ pc = "blocks" /\ j < SelfNPart
    /\ LET r == Accumulate(SelfContribs(j), acf, cnt) IN
        /\ acf' = r[1]
        /\ cnt' = r[2]
    /\ j' = j + block
    /\ block_log' = Append(block_log, BlockSlice(j))
    /\ UNCHANGED <<extNoBlocks, tau, skVars, trajVars, cfgVars, arrVars, rhoVars, outVars, discrete_tgrid, pc>>

\* lines 111-114
SelfNormalize ==
    /\ pc = "blocks" /\ j >= SelfNPart
    /\ LET ts == Sorted(DOMAIN acf[1]) IN
        IF MissingKey(acf, ts)
        THEN /\ pc' = "compute_error"
             /\ UNCHANGED outVars
        ELSE /\ t_sorted' = ts
             /\ value' = [kk \in 1..NShells |-> CountNormalized(acf, cnt, kk, ts)]
             /\ pc' = "normalized"
             /\ UNCHANGED value_nonorm
    /\ UNCHANGED <<extVars, tau, skVars, trajVars, cfgVars, arrVars, accVars, rhoVars, discrete_tgrid>>

\* line 115
SelfRenormalize ==
    /\ pc = "normalized"
    /\ value' = [kk \in 1..NShells |-> Renormalized(value[kk])]
    /\ pc' = "done"
    /\ UNCHANGED <<t_sorted, value_nonorm>>
    /\ UNCHANGED <<extVars, tau, skVars, trajVars, cfgVars, arrVars, accVars, rhoVars, discrete_tgrid>>

(***************************************************************************)
(* IntermediateScattering._tabulate_rho and _compute                       *)
(***************************************************************************)
\* the wave vectors selected in any shell
SelectedVectors ==
    UNION {{kvec[kk][k_selected(kk - 1)[q] + 1] : q \in 1..Len(k_selected(kk - 1))} :
            kk \in 1..NShells}

\* expo[..., 0, ik[0]] * expo[..., 1, ik[1]] * expo[..., 2, ik[2]] of one particle
RhoTerm(r, ik) ==
    CMul(CMul(expo(r[1], ik[1]), expo(r[2], ik[2])), expo(r[3], ik[3]))

\* numpy.sum over the particles of one frame
RECURSIVE RhoSum(_, _, _)
RhoSum(frame, p, ik) ==
    IF p > Len(frame) THEN <<0, 0>>
    ELSE CAdd(RhoTerm(frame[p], ik), RhoSum(frame, p + 1, ik))

Tabulated(posarr) ==
    [f \in 1..Len(posarr) |-> [ik \in SelectedVectors |-> RhoSum(posarr[f], 1, ik)]]

\* the calls of expo_sphere for frame f (0-based): one table when the two
\* position arrays are one object, else one table per array
ExpoCalls(f) == IF shared THEN << <<f, 0>> >> ELSE << <<f, 0>>, <<f, 1>> >>

\* a tabulation that computes the second table and the second density anew
CollTabulateCopy ==
    /\ pc = "arrays" /\ engine = "fkt"
    /\ rho_0' = Tabulated(pos_0)
    /\ rho_1' = Tabulated(pos_1)
    /\ rho_shared' = FALSE
    /\ expo_log' = expo_log \o Flatten([f \in 1..Len(pos_0) |->
                                           << <<f - 1, 0>>, <<f - 1, 1>> >>])
    /\ pc' = "tabulated"
    /\ UNCHANGED <<extNoIdent, tau, skVars, trajVars, cfgVars, arrVars, accVars, outVars, discrete_tgrid>>

\* _tabulate_rho: rho_1 is rho_0 when the two position arrays are one object
CollTabulate ==
    /\ pc = "arrays" /\ engine = "fkt"
    /\ rho_0' = Tabulated(pos_0)
    /\ rho_1' = IF shared THEN Tabulated(pos_0) ELSE Tabulated(pos_1)
    /\ rho_shared' = shared
    /\ expo_log' = expo_log \o Flatten([f \in 1..Len(pos_0) |-> ExpoCalls(f - 1)])
    /\ pc' = "tabulated"
    /\ UNCHANGED <<extNoIdent, tau, skVars, trajVars, cfgVars, arrVars, accVars, outVars, discrete_tgrid>>

\* a count of the particles of the origin frame in place of the origin
CollCountParticles(frame) == Len(frame)

\* what one contribution adds to cnt: 1, whatever the frame of the origin
CollCount(frame) == 1

\* the contributions of lines 191-200, in loop order
CollContribs ==
    Flatten([kk1 \in 1..NShells |->
      Flatten([q \in 1..Len(k_selected(kk1 - 1)) |->
        Flatten([g \in 1..Len(discrete_tgrid) |->
          LET ik  == kvec[kk1][k_selected(kk1 - 1)[q] + 1]
              off == discrete_tgrid[g][1]
              i   == discrete_tgrid[g][2]
              org == Origins(off, i, Len(rho_0), block_period)
          IN  [o \in 1..Len(org) |->
                 [kk |-> kk1,
                  dt |-> StepDiff(org[o], i),
                  v  |-> RealOfProduct(rho_0[org[o] + i + 1][ik],
                                       conjugate(rho_1[org[o] + 1][ik])),
                  n  |-> CollCount(pos_0[org[o] + 1])]]])])])

\* lines 188-200
CollCorrelate ==
    /\ pc = "tabulated"
    /\ LET r == Accumulate(CollContribs, EmptyAcc, EmptyAcc) IN
        /\ acf' = r[1]
        /\ cnt' = r[2]
    /\ pc' = "correlated"
    /\ UNCHANGED j
    /\ UNCHANGED <<extVars, tau, skVars, trajVars, cfgVars, arrVars, rhoVars, outVars, discrete_tgrid>>

\* lines 203-217: both branches divide by the counts, then by the first entry
CollNormalize ==
    /\ pc = "correlated"
    /\ LET times == Sorted(DOMAIN acf[1]) IN
        IF MissingKey(acf, times)
        THEN /\ pc' = "compute_error"
             /\ UNCHANGED outVars
        ELSE /\ t_sorted' = times
             /\ value_nonorm' =
                    [kk \in 1..NShells |-> CountNormalized(acf, cnt, kk, times)]
             /\ value' =
                    [kk \in 1..NShells |->
                        Renormalized(CountNormalized(acf, cnt, kk, times))]
             /\ pc' = "done"
    /\ UNCHANGED <<extVars, tau, skVars, trajVars, cfgVars, arrVars, accVars, rhoVars, discrete_tgrid>>

Next ==
    \/ Construct
    \/ SetupArraysSelf
    \/ SetupArraysColl
    \/ SelfBegin
    \/ SelfBlock
    \/ SelfNormalize
    \/ SelfRenormalize
    \/ CollTabulate
    \/ CollCorrelate
    \/ CollNormalize

Spec == Init /\ [][Next]_vars

(***************************************************************************)
(* The collective engine on a catalogue of wave vectors in which a shell   *)
(* can be void.                                                            *)
(***************************************************************************)
\* the filters of the collective engine: none, or species 1 against species 2
CollFilters == {<<>>, <<1, 2>>}

InitColl ==
    /\ \E n \in 2..MaxEngFrames :
        /\ steps \in EngStepSeqs(n)
        /\ mover \in {m \in [1..n -> {0, 1}] : m[1] = 0}
    /\ block_period \in EngPeriods
    /\ t_grid \in EngTGrids
    /\ npart \in 1..MaxN
    /\ nk \in NkValues
    /\ void_shells \in SUBSET (0..(NShells - 1))
    /\ engine = "fkt" /\ cbk \in CollFilters
    /\ discrete_tgrid = NoGrid
    /\ pc = "new"
    /\ NoSk
    /\ Untouched
    /\ NoUpdateMode
    /\ pos_unf = Unset /\ pos_0 = Unset /\ pos_1 = Unset /\ shared = FALSE
    /\ j = 0 /\ acf = Unset /\ cnt = Unset /\ rho_0 = Unset /\ rho_1 = Unset
    /\ t_sorted = Unset /\ value_nonorm = Unset /\ value = Unset

NextColl ==
    \/ Construct
    \/ SetupArraysColl
    \/ CollTabulate
    \/ CollCorrelate
    \/ CollNormalize

SpecColl == InitColl /\ [][NextColl]_vars

(***************************************************************************)
(* The two engines on longer trajectories of more particles than a block   *)
(* holds.                                                                  *)
(***************************************************************************)
\* the numbers of particles: less than a block, a block, more than two
BlockParticles == {1, 20, 21, 41}

InitBlocks ==
    /\ \E n \in 2..MaxBlockFrames :
        /\ steps \in EngStepSeqs(n)
        /\ mover \in {[f \in 1..n |-> 0], [f \in 1..n |-> IF f = n THEN 1 ELSE 0]}
    /\ block_period \in EngPeriods
    /\ t_grid \in {{0, TDen}, {TDen, 2 * TDen}}
    /\ npart \in BlockParticles
    /\ nk = 1
    /\ void_shells = {}
    /\ \E c \in EngineConfigs : engine = c[1] /\ cbk = c[2]
    /\ discrete_tgrid = NoGrid
    /\ pc = "new"
    /\ NoSk
    /\ Untouched
    /\ NoUpdateMode
    /\ pos_unf = Unset /\ pos_0 = Unset /\ pos_1 = Unset /\ shared = FALSE
    /\ j = 0 /\ acf = Unset /\ cnt = Unset /\ rho_0 = Unset /\ rho_1 = Unset
    /\ t_sorted = Unset /\ value_nonorm = Unset /\ value = Unset

SpecBlocks == InitBlocks /\ [][Next]_vars

(***************************************************************************)
(* StructureFactor and StructureFactorOptimized (sk.py).  The trajectory   *)
(* has uniform steps; the field source has its own steps.                  *)
(***************************************************************************)
\* the stride self.skip over the frames
SkSkips == {1, 2}

SkSteps(n) == [f \in 1..n |-> f - 1]

\* filters of a structure factor: none, one species, two species
SkFilters == {<<>>, <<1>>, <<1, 2>>}

\* the value 'particle.<field>' of particle p in a frame of n particles: 2
\* plus or minus 1, and 2 for the last particle of an odd number, so that
\* the mean of every frame is the integer 2
RawField(p, n) ==
    IF n % 2 = 1 /\ p = n - 1 THEN 2 ELSE IF p % 2 = 0 THEN 3 ELSE 1

\* s.dump('particle.<field>') for the frames of th
FieldFrames == [f \in 1..Len(th_steps) |-> [q \in 1..npart |-> RawField(q - 1, npart)]]

RECURSIVE SeqSum(_)
SeqSum(w) == IF w = <<>> THEN 0 ELSE Head(w) + SeqSum(Tail(w))

\* current_field.mean()
FrameMean(w) == SeqSum(w) \div Len(w)

\* lines 73-79: the mean of the means of the frames, subtracted everywhere
MeanSubtracted(fields) ==
    LET mean == SeqSum([f \in 1..Len(fields) |-> FrameMean(fields[f])]) \div Len(fields)
    IN  [f \in 1..Len(fields) |-> [q \in 1..Len(fields[f]) |-> fields[f][q] - mean]]

\* th.steps != self.trajectory.steps
FieldUnsynced == field_cfg = "file" /\ th_steps # steps

InitSk ==
    /\ \E n \in 2..MaxEngFrames :
        /\ steps = SkSteps(n)
        /\ mover \in {m \in [1..n -> {0, 1}] : m[1] = 0}
    /\ npart \in 1..MaxN
    /\ nk \in NkValues
    /\ void_shells = {}
    /\ engine \in {"sk", "sk_opt"}
    /\ backend \in (IF engine = "sk_opt" THEN BOOLEAN ELSE {TRUE})
    /\ cbk \in SkFilters
    /\ field_cfg \in {"none", "self", "file"}
    /\ th_steps \in (IF field_cfg = "file"
                     THEN {steps, SubSeq(steps, 1, Len(steps) - 1),
                           [steps EXCEPT ![Len(steps)] = @ + 1]}
                     ELSE {steps})
    /\ variable_cell \in BOOLEAN
    /\ self_skip \in SkSkips
    /\ block_period = 1 /\ t_grid = {} /\ discrete_tgrid = NoGrid
    /\ pc = "new"
    /\ pos_unf = <<>> /\ pos_0 = <<>> /\ pos_1 = <<>> /\ shared = FALSE
    /\ j = 0 /\ acf = <<>> /\ cnt = <<>> /\ rho_0 = <<>> /\ rho_1 = <<>>
    /\ t_sorted = <<>> /\ value_nonorm = <<>> /\ value = <<>>
    /\ field = <<>> /\ kvec_frame = -1 /\ it = 0 /\ tab_log = <<>>
    /\ rho_av = <<>> /\ rho2_av = <<>> /\ grid = <<>>
    /\ tau = <<>>
    /\ Untouched
    /\ NoUpdateMode

\* a constructor that reads and centres the field before it compares steps
SkConstructReadFirst ==
    /\ pc = "new" /\ engine \in {"sk", "sk_opt"}
    /\ field' = IF field_cfg = "none" THEN <<>> ELSE MeanSubtracted(FieldFrames)
    /\ pc' = IF FieldUnsynced THEN "ctor_error" ELSE "constructed"
    /\ kvec_frame' = -1
    /\ need_update' = NeedUpdate
    /\ UNCHANGED <<it, tab_log, rho_av, rho2_av, grid>>
    /\ UNCHANGED <<extNoDo, doCfgVars, out_file, tau, skCfgVars, trajVars, cfgVars, arrVars, accVars, rhoVars, outVars,
                   discrete_tgrid>>

\* StructureFactor.__init__ with _add_field: the wave vectors are set up for
\* the first frame, the steps of the field source are compared, and only
\* then the field is read and its global mean subtracted
SkConstruct ==
    /\ pc = "new" /\ engine \in {"sk", "sk_opt"}
    /\ IF field_cfg = "none"
       THEN field' = <<>> /\ pc' = "constructed"
       ELSE IF th_steps # steps
            THEN field' = field /\ pc' = "ctor_error"
            ELSE field' = MeanSubtracted(FieldFrames) /\ pc' = "constructed"
    /\ kvec_frame' = -1
    /\ need_update' = NeedUpdate
    /\ UNCHANGED <<it, tab_log, rho_av, rho2_av, grid>>
    /\ UNCHANGED <<extNoDo, doCfgVars, out_file, tau, skCfgVars, trajVars, cfgVars, arrVars, accVars, rhoVars, outVars,
                   discrete_tgrid>>

\* nsteps = len(self._pos_0)
nsteps == Len(pos_0)

\* a weight times a complex number
CScale(w, c) == <<w * c[1], w * c[2]>>

\* numpy broadcasting of the field of a frame against its phase factors
FieldFits(i) ==
    \/ Len(field[i + 1]) = Len(pos_0[i + 1])
    \/ Len(field[i + 1]) = 1
    \/ Len(pos_0[i + 1]) = 1

\* numpy.sum(self._field[i] * expo_0[..., 0, ik[0]] * ...), broadcast
RECURSIVE WeightedRhoSum(_, _, _, _)
WeightedRhoSum(frame, w, q, ik) ==
    IF q > Len(frame) /\ q > Len(w) THEN <<0, 0>>
    ELSE LET r == frame[IF Len(frame) = 1 THEN 1 ELSE q]
             f == w[IF Len(w) = 1 THEN 1 ELSE q]
         IN  CAdd(CScale(f, RhoTerm(r, ik)), WeightedRhoSum(frame, w, q + 1, ik))

\* rho_0 of frame i and wave vector ik (lines 119-140)
SkRho0(i, ik) ==
    IF field = <<>> THEN RhoSum(pos_0[i + 1], 1, ik)
    ELSE WeightedRhoSum(pos_0[i + 1], field[i + 1], 1, ik)

\* rho_1: rho_0 for identical species and with a field, else of filter 1
SkRho1(i, ik) ==
    IF field = <<>> /\ ~shared THEN RhoSum(pos_1[i + 1], 1, ik) ELSE SkRho0(i, ik)

\* a mean density accumulated with or without a field
RhoAvTermAlways(i, ik) == SkRho0(i, ik)

\* what a wave vector adds to rho_av: nothing in the absence of a field
RhoAvTerm(i, ik) == IF field = <<>> THEN <<0, 0>> ELSE SkRho0(i, ik)

\* the wave vector q (1-based) of the selection of shell kk (1-based)
SkVector(kk, q) == kvec[kk][k_selected(kk - 1)[q] + 1]

\* lines 116-144 for one shell of frame i: rho_av, rho2_av and cnt after
\* the wave vectors q, q+1, ... of the selection
RECURSIVE SkShell(_, _, _, _)
SkShell(i, kk, q, acc) ==
    IF q > Len(k_selected(kk - 1)) THEN acc
    ELSE LET ik == SkVector(kk, q) IN
         SkShell(i, kk, q + 1,
                 [av  |-> CAdd(acc.av, RhoAvTerm(i, ik)),
                  av2 |-> FAdd(acc.av2,
                               RealOfProduct(SkRho0(i, ik), conjugate(SkRho1(i, ik)))),
                  n   |-> acc.n + 1])

\* lines 89-96
SkZero == [kk \in 1..NShells |-> 0]

SkComplexZero == [kk \in 1..NShells |-> <<0, 0>>]

SkBegin ==
    /\ pc = "arrays" /\ engine = "sk"
    /\ cnt' = SkZero /\ rho_av' = SkComplexZero /\ rho2_av' = SkComplexZero
    /\ it' = 0
    /\ pc' = "frame"
    /\ UNCHANGED <<field, kvec_frame, tab_log, grid, j, acf>>
    /\ UNCHANGED <<extVars, tau, skCfgVars, trajVars, cfgVars, arrVars, rhoVars, outVars,
                   discrete_tgrid>>

\* a frame loop that never sets the wave vectors up again
SkRebuildNever ==
    /\ pc = "frame" /\ engine \in {"sk", "sk_opt"} /\ it < nsteps
    /\ kvec_frame' = kvec_frame
    /\ pc' = "tabulate"
    /\ UNCHANGED <<field, it, tab_log, rho_av, rho2_av, grid>>
    /\ UNCHANGED <<extVars, tau, skCfgVars, trajVars, cfgVars, arrVars, accVars, rhoVars, outVars,
                   discrete_tgrid>>

\* lines 99-102: the wave vectors are set up again for a variable cell
SkRebuild ==
    /\ pc = "frame" /\ engine \in {"sk", "sk_opt"} /\ it < nsteps
    /\ kvec_frame' = IF variable_cell THEN it ELSE kvec_frame
    /\ pc' = "tabulate"
    /\ UNCHANGED <<field, it, tab_log, rho_av, rho2_av, grid>>
    /\ UNCHANGED <<extVars, tau, skCfgVars, trajVars, cfgVars, arrVars, accVars, rhoVars, outVars,
                   discrete_tgrid>>

\* lines 106-144: the exponentials of frame it are tabulated and the
\* selected wave vectors of every shell accumulated
SkFrame ==
    /\ pc = "tabulate" /\ engine = "sk"
    /\ tab_log' = Append(tab_log, <<it, kvec_frame>>)
    /\ expo_log' = expo_log \o ExpoCalls(it)
    /\ UNCHANGED rho_shared
    /\ IF field # <<>> /\ ~FieldFits(it)
       THEN /\ pc' = "compute_error"
            /\ UNCHANGED <<it, rho_av, rho2_av, cnt>>
       ELSE /\ LET r == [kk \in 1..NShells |->
                           SkShell(it, kk, 1, [av |-> rho_av[kk], av2 |-> rho2_av[kk],
                                               n |-> cnt[kk]])]
               IN  /\ rho_av' = [kk \in 1..NShells |-> r[kk].av]
                   /\ rho2_av' = [kk \in 1..NShells |-> r[kk].av2]
                   /\ cnt' = [kk \in 1..NShells |-> r[kk].n]
            /\ it' = it + self_skip
            /\ pc' = "frame"
    /\ UNCHANGED <<field, kvec_frame, grid, j, acf>>
    /\ UNCHANGED <<extNoIdent, tau, skCfgVars, trajVars, cfgVars, arrVars, rhoVars, outVars,
                   discrete_tgrid>>

\* fourierspace_module.sk_bare(expo_0, ikvec, rho): rho(k) of the table
\* expo_0 for one wave-index triple, as the per-axis product summed
sk_bare(i, ik) == RhoSum(pos_0[i + 1], 1, ik)

\* numpy.sum(rho_0 * rho_1.conjugate()) with rho_0 = rho_1 = rho
RECURSIVE SkOptSum(_, _, _)
SkOptSum(i, kk, q) ==
    IF q > Len(k_selected(kk - 1)) THEN <<0, 0>>
    ELSE LET rho == sk_bare(i, SkVector(kk, q)) IN
         FAdd(RealOfProduct(rho, conjugate(rho)), SkOptSum(i, kk, q + 1))

\* an optimized engine that computes with the reference path when the
\* import fails
SkOptBeginFallback ==
    /\ pc = "arrays" /\ engine = "sk_opt"
    /\ cnt' = SkZero /\ rho_av' = SkComplexZero /\ rho2_av' = SkComplexZero
    /\ it' = 0
    /\ pc' = "frame"
    /\ UNCHANGED <<field, kvec_frame, tab_log, grid, j, acf>>
    /\ UNCHANGED <<extVars, tau, skCfgVars, trajVars, cfgVars, arrVars, rhoVars, outVars,
                   discrete_tgrid>>

\* StructureFactorOptimized._compute, lines 172-186: the import of the
\* wrapper fails with ImportError, which is logged and raised again
SkOptBegin ==
    /\ pc = "arrays" /\ engine = "sk_opt"
    /\ IF ~backend
       THEN /\ pc' = "import_error"
            /\ UNCHANGED <<cnt, rho_av, rho2_av, it>>
       ELSE /\ cnt' = SkZero /\ rho_av' = SkComplexZero /\ rho2_av' = SkComplexZero
            /\ it' = 0
            /\ pc' = "frame"
    /\ UNCHANGED <<field, kvec_frame, tab_log, grid, j, acf>>
    /\ UNCHANGED <<extVars, tau, skCfgVars, trajVars, cfgVars, arrVars, rhoVars, outVars,
                   discrete_tgrid>>

\* lines 196-217: the reduction of the wrapper for every shell of frame it
SkOptFrame ==
    /\ pc = "tabulate" /\ engine = "sk_opt"
    /\ tab_log' = Append(tab_log, <<it, kvec_frame>>)
    /\ expo_log' = expo_log \o ExpoCalls(it)
    /\ UNCHANGED rho_shared
    /\ rho2_av' = [kk \in 1..NShells |-> FAdd(rho2_av[kk], SkOptSum(it, kk, 1))]
    /\ cnt' = [kk \in 1..NShells |-> cnt[kk] + Len(k_selected(kk - 1))]
    /\ it' = it + self_skip
    /\ pc' = "frame"
    /\ UNCHANGED <<field, kvec_frame, rho_av, grid, j, acf>>
    /\ UNCHANGED <<extNoIdent, tau, skCfgVars, trajVars, cfgVars, arrVars, rhoVars, outVars,
                   discrete_tgrid>>

\* sum([p.shape[0] for p in arr]) / float(len(arr)) as <<numerator, denominator>>
AvgParticles(arr) == <<SeqSum([f \in 1..Len(arr) |-> Len(arr[f])]), Len(arr)>>

\* (rho2_av[kk] / cnt[kk] - rho_av[kk]*rho_av[kk].conjugate() / cnt[kk]**2).real
SkValue(kk) ==
    NumSub(NumDiv(FloatOf(rho2_av[kk]), Num(cnt[kk], 1, 0)),
           NumDiv(FloatOf(RealOfProduct(rho_av[kk], conjugate(rho_av[kk]))),
                  Num(cnt[kk] * cnt[kk], 1, 0)))

\* a value left without the division by the square root of N_0 * N_1
SkNormalizedNot(v) == v \o <<1, 1>>

\* value / float(npart_0 * npart_1)**0.5
SkNormalized(v) ==
    LET n0 == AvgParticles(pos_0)
        n1 == AvgParticles(pos_1)
    IN  OverSqrt(v, n0[1] * n1[1], n0[2] * n1[2])

\* lines 146-155 (and 219-228)
SkNormalize ==
    /\ pc = "frame" /\ engine \in {"sk", "sk_opt"} /\ it >= nsteps
    /\ grid' = [kk \in 1..NShells |-> kk - 1]
    /\ value_nonorm' = [kk \in 1..NShells |-> SkValue(kk)]
    /\ value' = [kk \in 1..NShells |-> SkNormalized(SkValue(kk))]
    /\ pc' = "done"
    /\ UNCHANGED <<field, kvec_frame, it, tab_log, rho_av, rho2_av, t_sorted>>
    /\ UNCHANGED <<extVars, tau, skCfgVars, trajVars, cfgVars, arrVars, accVars, rhoVars,
                   discrete_tgrid>>

NextSk ==
    \/ SkConstruct
    \/ SetupArraysColl
    \/ SkBegin
    \/ SkOptBegin
    \/ SkRebuild
    \/ SkFrame
    \/ SkOptFrame
    \/ SkNormalize

SpecSk == InitSk /\ [][NextSk]_vars

(***************************************************************************)
(* The engines together: an instance is any of the four.                   *)
(***************************************************************************)
InitEngines == Init \/ InitSk

NextEngines == Next \/ NextSk

SpecEngines == InitEngines /\ [][NextEngines]_vars

(***************************************************************************)
(* The accumulation of SelfIntermediateScattering._compute (lines 89-109)  *)
(* carried out by workers: every particle block is accumulated by one      *)
(* worker into its private acf and cnt, in any order, and the private      *)
(* accumulators are added up at the end.                                   *)
(***************************************************************************)
\* numbers of particles: one block, two full blocks, two blocks and a rest
MergeParticles == {20, 40, 41}

\* the buckets (shell, dt) every block adds to, in loop order
MergeKeys == << <<1, 0>>, <<2, 0>> >>

\* the term numpy.sum(...).real of a block: 1, -1, or a value below half an
\* ulp of 1 (the cosine of a quarter turn, 6.1e-17), as a float sum <<i, t>>
TermValues == {<<1, 0>>, <<-1, 0>>, <<0, 1>>}

\* origins = range(0, pos.shape[1], block)
BlockOrigins(n) == PyRange(0, n, Min(BlockMax, n))

\* the terms of block b (1-based), in loop order
BlockTerms(b) ==
    [q \in 1..Len(MergeKeys) |->
        [kk |-> MergeKeys[q][1], dt |-> MergeKeys[q][2], v |-> terms[b][q],
         n  |-> Min(BlockOrigins(npart)[b] + Min(BlockMax, npart), npart)
                    - BlockOrigins(npart)[b]]]

\* the loop of lines 97-109 over the blocks b, b+1, ... in their order
RECURSIVE BlockByBlock(_, _)
BlockByBlock(b, acc) ==
    IF b > Len(terms) THEN acc
    ELSE BlockByBlock(b + 1, Accumulate(BlockTerms(b), acc[1], acc[2]))

InitMerge ==
    /\ npart \in MergeParticles
    /\ terms \in [1..Len(BlockOrigins(npart)) -> [1..Len(MergeKeys) -> TermValues]]
    /\ \E w \in 1..MaxWorkers :
        /\ owner \in [1..Len(BlockOrigins(npart)) -> 1..w]
        /\ part = [k \in 1..w |-> <<EmptyAcc, EmptyAcc>>]
    /\ pending = 1..Len(BlockOrigins(npart))
    /\ pc = "workers"
    /\ acf = EmptyAcc /\ cnt = EmptyAcc /\ j = 0
    /\ engine = "fskt" /\ cbk = <<>> /\ nk = 1 /\ void_shells = {} /\ mover = <<>>
    /\ steps = <<0>> /\ block_period = 1 /\ t_grid = {} /\ discrete_tgrid = NoGrid
    /\ pos_unf = <<>> /\ pos_0 = <<>> /\ pos_1 = <<>> /\ shared = FALSE
    /\ rho_0 = <<>> /\ rho_1 = <<>>
    /\ t_sorted = <<>> /\ value_nonorm = <<>> /\ value = <<>>
    /\ NoSk
    /\ rho_shared = FALSE /\ expo_log = <<>> /\ block_log = <<>>
    /\ NoUpdateMode

\* a worker accumulates one of its blocks into its private acf and cnt
WorkerBlock ==
    /\ pc = "workers"
    /\ \E b \in pending :
        /\ part' = [part EXCEPT ![owner[b]] = Accumulate(BlockTerms(b), @[1], @[2])]
        /\ pending' = pending \ {b}
    /\ UNCHANGED <<terms, owner, identVars, block_log, doVars>>
    /\ UNCHANGED <<tau, skVars, trajVars, cfgVars, arrVars, accVars, rhoVars, outVars,
                   discrete_tgrid, pc>>

\* the buckets of one shell of a private accumulator added to the total
RECURSIVE MergeShell(_, _, _, _, _)
MergeShell(a, c, pa, pc0, keys) ==
    IF keys = {} THEN <<a, c>>
    ELSE LET k == SetMin(keys) IN
         MergeShell(AcfAdd(a, k, pa[k]), CntAdd(c, k, pc0[k]), pa, pc0, keys \ {k})

\* the private accumulators w, w+1, ... added to the total
RECURSIVE MergeParts(_, _)
MergeParts(w, acc) ==
    IF w > Len(part) THEN acc
    ELSE MergeParts(w + 1,
            [kk \in 1..NShells |->
                MergeShell(acc[kk][1], acc[kk][2], part[w][1][kk], part[w][2][kk],
                           DOMAIN part[w][1][kk])])

\* the sums and counts of the workers are added up
Merge ==
    /\ pc = "workers" /\ pending = {}
    /\ LET r == MergeParts(1, [kk \in 1..NShells |-> <<EmptyMap, EmptyMap>>]) IN
        /\ acf' = [kk \in 1..NShells |-> r[kk][1]]
        /\ cnt' = [kk \in 1..NShells |-> r[kk][2]]
    /\ pc' = "merged"
    /\ UNCHANGED <<j, extVars>>
    /\ UNCHANGED <<tau, skVars, trajVars, cfgVars, arrVars, rhoVars, outVars,
                   discrete_tgrid>>

NextMerge == WorkerBlock \/ Merge

SpecMerge == InitMerge /\ [][NextMerge]_vars

(***************************************************************************)
(* _extract_tau (fkt.py), called by analyze of both scattering engines, on *)
(* any curves.                                                             *)
(***************************************************************************)
\* the undefined relaxation time
None == <<>>

\* the entries of the curves: nan, 0, 1/2 and 1
CurveValues == {NaN, Num(0, 1, 0), Num(1, 2, 0), One}

\* v > 1/e and v < 1/e on floats; nan is neither
AboveInvE(v) ==
    \/ v = PosInf
    \/ IsFinite(v) /\ v[3] = 0 /\ 100000 * v[1] > 36788 * v[2]

BelowInvE(v) == v = NegInf \/ (IsFinite(v) /\ ~AboveInvE(v))

\* the first i (1-based) at which the curve f crosses 1/e between its
\* entries i and i+1, 0 when it never does
FirstCrossing(f) ==
    LET X == {i \in 1..(Len(f) - 1) :
                \/ AboveInvE(f[i]) /\ BelowInvE(f[i + 1])
                \/ BelowInvE(f[i]) /\ AboveInvE(f[i + 1])}
    IN  IF X = {} THEN 0 ELSE SetMin(X)

\* helpers.feqc(t, f, 1/e): the crossing interpolated between the
\* bracketing samples, given by these samples; ValueError without a crossing
feqc(t, f) ==
    LET i == FirstCrossing(f) IN
    IF i = 0 THEN [raised |-> "ValueError", x |-> None]
    ELSE [raised |-> "", x |-> <<t[i], t[i + 1], f[i], f[i + 1]>>]

\* _extract_tau(k, t, f): tau[k] for every shell
extract_tau(k, t, f) ==
    [i \in 1..Len(k) |->
        IF feqc(t, f[i]).raised = "ValueError" THEN None ELSE feqc(t, f[i]).x]

InitTau ==
    /\ \E n \in 1..MaxLags :
        /\ t_sorted = [q \in 1..n |-> q - 1]
        /\ value \in [1..NShells -> [1..n -> CurveValues]]
    /\ grid = [kk \in 1..NShells |-> kk - 1]
    /\ tau = <<>>
    /\ pc = "tau_start"
    /\ engine = "none" /\ cbk = <<>> /\ nk = 0 /\ npart = 0 /\ mover = <<>>
    /\ void_shells = {}
    /\ steps = <<0>> /\ block_period = 1 /\ t_grid = {} /\ discrete_tgrid = NoGrid
    /\ pos_unf = <<>> /\ pos_0 = <<>> /\ pos_1 = <<>> /\ shared = FALSE
    /\ j = 0 /\ acf = <<>> /\ cnt = <<>> /\ rho_0 = <<>> /\ rho_1 = <<>>
    /\ value_nonorm = <<>>
    /\ self_skip = 1 /\ field_cfg = "none" /\ th_steps = <<>>
    /\ variable_cell = FALSE /\ backend = TRUE
    /\ field = <<>> /\ kvec_frame = -1 /\ it = 0 /\ tab_log = <<>>
    /\ rho_av = <<>> /\ rho2_av = <<>>
    /\ Untouched
    /\ NoUpdateMode

\* an analysis that lets the ValueError of a shell out
AnalyzeUncaught ==
    /\ pc = "tau_start"
    /\ IF \E i \in 1..Len(grid) : feqc(t_sorted, value[i]).raised # ""
       THEN tau' = tau /\ pc' = "tau_error"
       ELSE tau' = extract_tau(grid, t_sorted, value) /\ pc' = "tau_done"
    /\ UNCHANGED <<skCfgVars, trajVars, cfgVars, arrVars, accVars, rhoVars, outVars,
                   discrete_tgrid>>
    /\ UNCHANGED <<extVars, skAccVars>>

\* analyze(): self.analysis['relaxation times tau'] = _extract_tau(...)
Analyze ==
    /\ pc = "tau_start"
    /\ tau' = extract_tau(grid, t_sorted, value)
    /\ pc' = "tau_done"
    /\ UNCHANGED <<skCfgVars, trajVars, cfgVars, arrVars, accVars, rhoVars, outVars,
                   discrete_tgrid>>
    /\ UNCHANGED <<extVars, skAccVars>>

NextTau == Analyze

SpecTau == InitTau /\ [][NextTau]_vars

(***************************************************************************)
(* Correlation.compute and Correlation.do (correlation.py) on the engines, *)
(* with the update mode of the module.                                     *)
(***************************************************************************)
\* the engines and filters of the runs
DoEngines ==
    {<<"fskt", <<>>>>, <<"fkt", <<>>>>, <<"fkt", <<1, 2>>>>, <<"sk", <<>>>>,
     <<"sk_opt", <<>>>>}

\* the output file before the run: none, or one older than, as old as or
\* newer than the trajectory file
DoFiles ==
    {NoFile} \cup {[exists |-> TRUE, mtime |-> t, data |-> <<>>] : t \in 0..2}

\* the numbers of particles of the runs
DoParticles == {1, 2}

InitDo ==
    /\ \E n \in 2..MaxEngFrames :
        /\ steps \in EngStepSeqs(n)
        /\ mover \in {m \in [1..n -> {0, 1}] : m[1] = 0}
    /\ block_period = 1
    /\ npart \in DoParticles
    /\ nk = 1 /\ void_shells = {}
    /\ \E c \in DoEngines : engine = c[1] /\ cbk = c[2]
    /\ t_grid = IF engine \in {"fskt", "fkt"} THEN {0, TDen} ELSE {}
    /\ backend \in (IF engine = "sk_opt" THEN BOOLEAN ELSE {TRUE})
    /\ field_cfg = "none" /\ th_steps = steps /\ variable_cell = FALSE /\ self_skip = 1
    /\ discrete_tgrid = NoGrid
    /\ pc = "new"
    /\ pos_unf = <<>> /\ pos_0 = <<>> /\ pos_1 = <<>> /\ shared = FALSE
    /\ j = 0 /\ acf = <<>> /\ cnt = <<>> /\ rho_0 = <<>> /\ rho_1 = <<>>
    /\ t_sorted = <<>> /\ value_nonorm = <<>> /\ value = <<>>
    /\ field = <<>> /\ kvec_frame = -1 /\ it = 0 /\ tab_log = <<>>
    /\ rho_av = <<>> /\ rho2_av = <<>> /\ grid = <<>>
    /\ tau = <<>>
    /\ Untouched
    /\ UPDATE \in BOOLEAN /\ traj_mtime = 1 /\ out_file \in DoFiles
    /\ need_update = TRUE /\ helpers_ok \in BOOLEAN /\ called \in {"compute", "do"}

\* compute() and do(), lines 278-279 and 355-356: nothing to update
SkipUpdate ==
    /\ pc = "constructed" /\ ~need_update
    /\ pc' = "returned"
    /\ UNCHANGED <<extVars, tau, skVars, trajVars, cfgVars, arrVars, accVars, rhoVars,
                   outVars, discrete_tgrid>>

\* self.analyze(): the relaxation times of the time-domain engines, which
\* need feqc of the helpers; Correlation.analyze of the others does nothing
AnalyzeRaises == engine \in {"fskt", "fkt"} /\ ~helpers_ok

AnalyzeResult ==
    IF engine \in {"fskt", "fkt"}
    THEN extract_tau([kk \in 1..NShells |-> kk - 1], t_sorted, value)
    ELSE tau

\* compute(), lines 282-287: analyze inside try/except ImportError, return
AnalyzeInCompute ==
    /\ pc = "done"
    /\ tau' = IF AnalyzeRaises THEN tau ELSE AnalyzeResult
    /\ pc' = IF called = "do" THEN "computed" ELSE "returned"
    /\ UNCHANGED <<extVars, skVars, trajVars, cfgVars, arrVars, accVars, rhoVars,
                   outVars, discrete_tgrid>>

\* do(), lines 358-362: analyze once more, inside try/except ImportError
AnalyzeInDo ==
    /\ pc = "computed"
    /\ tau' = IF AnalyzeRaises THEN tau ELSE AnalyzeResult
    /\ pc' = "analyzed"
    /\ UNCHANGED <<extVars, skVars, trajVars, cfgVars, arrVars, accVars, rhoVars,
                   outVars, discrete_tgrid>>

\* a do() that writes as soon as compute() has returned
WriteEarly ==
    /\ pc \in {"constructed", "computed", "analyzed"} /\ called = "do" /\ need_update
    /\ out_file' = [exists |-> TRUE, mtime |-> traj_mtime + 1, data |-> <<value>>]
    /\ pc' = "written"
    /\ UNCHANGED <<extNoDo, doCfgVars, need_update>>
    /\ UNCHANGED <<tau, skVars, trajVars, cfgVars, arrVars, accVars, rhoVars,
                   outVars, discrete_tgrid>>

\* do(), line 363: self.write() dumps self.value into the output file
Write ==
    /\ pc = "analyzed"
    /\ out_file' = [exists |-> TRUE, mtime |-> traj_mtime + 1, data |-> <<value>>]
    /\ pc' = "written"
    /\ UNCHANGED <<extNoDo, doCfgVars, need_update>>
    /\ UNCHANGED <<tau, skVars, trajVars, cfgVars, arrVars, accVars, rhoVars,
                   outVars, discrete_tgrid>>

NextDo ==
    \/ NextEngines
    \/ SkipUpdate
    \/ AnalyzeInCompute
    \/ AnalyzeInDo
    \/ Write

SpecDo == InitDo /\ [][NextDo]_vars

(***************************************************************************)
(* Correlation.add_filter (correlation.py).                                *)
(***************************************************************************)
\* the class attribute nbodies of the engines
nbodies == IF engine \in TwoBodyEngines THEN 2 ELSE 1

\* the species the callers filter on
FilterArgs == {1, 2, 3}

\* a correlation object just constructed on a trajectory of two frames
InitFilter ==
    /\ steps = <<0, 1>> /\ mover = <<0, 0>>
    /\ block_period = 1 /\ npart = 2
    /\ nk = 1 /\ void_shells = {}
    /\ engine \in {"fskt", "fkt", "sk", "sk_opt"}
    /\ cbk = <<>>
    /\ t_grid = {} /\ backend = TRUE
    /\ field_cfg = "none" /\ th_steps = steps /\ variable_cell = FALSE /\ self_skip = 1
    /\ discrete_tgrid = NoGrid
    /\ pc = "new"
    /\ pos_unf = <<>> /\ pos_0 = <<>> /\ pos_1 = <<>> /\ shared = FALSE
    /\ j = 0 /\ acf = <<>> /\ cnt = <<>> /\ rho_0 = <<>> /\ rho_1 = <<>>
    /\ t_sorted = <<>> /\ value_nonorm = <<>> /\ value = <<>>
    /\ field = <<>> /\ kvec_frame = -1 /\ it = 0 /\ tab_log = <<>>
    /\ rho_av = <<>> /\ rho2_av = <<>> /\ grid = <<>>
    /\ tau = <<>>
    /\ Untouched
    /\ NoUpdateMode

\* add_filter(cbk, *args), lines 199-204; cbk, cbk_args and cbk_kwargs grow
\* together, the sequence cbk of the model holds the species of each filter
AddFilter ==
    /\ pc \in {"new", "filter_added", "filter_error"}
    /\ \E sp \in FilterArgs :
        IF Len(cbk) > nbodies
        THEN /\ pc' = "filter_error"
             /\ cbk' = cbk
        ELSE /\ cbk' = Append(cbk, sp)
             /\ pc' = "filter_added"
    /\ UNCHANGED <<engine, nk, void_shells>>
    /\ UNCHANGED <<extVars, tau, skVars, trajVars, arrVars, accVars, rhoVars,
                   outVars, discrete_tgrid>>

NextFilter == AddFilter

SpecFilter == InitFilter /\ [][NextFilter]_vars

(***************************************************************************)
(* gcf_offset (correlation.py) as SelfOverlap of realspace.py calls it.    *)
(***************************************************************************)
\* a trajectory of one particle and the requested times of a self overlap
InitGcf ==
    /\ \E n \in 1..MaxEngFrames :
        /\ steps \in EngStepSeqs(n)
        /\ mover \in {m \in [1..n -> {0, 1}] : m[1] = 0}
    /\ block_period \in EngPeriods
    /\ npart = 1
    /\ nk = 1 /\ void_shells = {}
    /\ engine = "qst" /\ cbk = <<>>
    /\ t_grid \in EngTGrids
    /\ backend = TRUE
    /\ field_cfg = "none" /\ th_steps = steps /\ variable_cell = FALSE /\ self_skip = 1
    /\ discrete_tgrid = NoGrid
    /\ pc = "new"
    /\ pos_unf = <<>> /\ pos_0 = <<>> /\ pos_1 = <<>> /\ shared = FALSE
    /\ j = 0 /\ acf = <<>> /\ cnt = <<>> /\ rho_0 = <<>> /\ rho_1 = <<>>
    /\ t_sorted = <<>> /\ value_nonorm = <<>> /\ value = <<>>
    /\ field = <<>> /\ kvec_frame = -1 /\ it = 0 /\ tab_log = <<>>
    /\ rho_av = <<>> /\ rho2_av = <<>> /\ grid = <<>>
    /\ tau = <<>>
    /\ Untouched
    /\ NoUpdateMode

\* SelfOverlap.__init__: the discrete grid of the requested times and
\* self.skip = adjust_skip(trajectory, norigins) with norigins = -1
QstConstruct ==
    /\ pc = "new" /\ engine = "qst"
    /\ discrete_tgrid' = setup_t_grid(steps, block_period, t_grid)
    /\ self_skip' = adjust_skip
    /\ need_update' = NeedUpdate
    /\ pc' = "constructed"
    /\ UNCHANGED <<field_cfg, th_steps, variable_cell, backend, skAccVars>>
    /\ UNCHANGED <<extNoDo, doCfgVars, out_file, tau, trajVars, cfgVars, arrVars,
                   accVars, rhoVars, outVars>>

\* Correlation._setup_arrays_onebody with phasespace 'pos-unf'
QstSetupArrays ==
    /\ pc = "constructed" /\ engine = "qst" /\ need_update
    /\ pos_unf' = OneBodyPos
    /\ pc' = "arrays"
    /\ UNCHANGED <<pos_0, pos_1, shared>>
    /\ UNCHANGED <<extVars, tau, skVars, trajVars, cfgVars, accVars, rhoVars, outVars,
                   discrete_tgrid>>

\* line 87: the origins xrange(off, len(x)-i-skip, skip) of a grid pair
GcfOrigins(off, i, n, skip) == PyRange(off, n - i - skip, skip)

\* the pairs of frames (i0, i0+i) in the order the double loop visits them
GcfVisits(g, skip, n) ==
    Flatten([q \in 1..Len(g) |->
        LET o == GcfOrigins(g[q][1], g[q][2], n, skip)
        IN  [r \in 1..Len(o) |-> <<o[r], o[r] + g[q][2]>>]])

\* f of SelfOverlap._compute for one particle: 1.0 when the particle is
\* within a of where it was, else 0.0
self_overlap(x1, x0) == IF x1 = x0 THEN 1 ELSE 0

\* lines 89-91 over the visits: acc is <<acf, cnt>>: sums of 0.0 and 1.0 are
\* exact, so they are kept as integers
RECURSIVE GcfAccumulate(_, _, _, _, _)
GcfAccumulate(v, k, acc, t, x) ==
    IF k > Len(v) THEN acc
    ELSE LET i0 == v[k][1]
             i1 == v[k][2]
             dt == t[i1 + 1] - t[i0 + 1]
         IN  GcfAccumulate(v, k + 1,
                 <<CntAdd(acc[1], dt, self_overlap(x[i1 + 1], x[i0 + 1])),
                   CntAdd(acc[2], dt, 1)>>, t, x)

\* gcf_offset(f, grid, skip, t, x): the dictionaries acf and cnt
gcf_offset(g, skip, t, x) ==
    GcfAccumulate(GcfVisits(g, skip, Len(x)), 1, <<EmptyMap, EmptyMap>>, t, x)

\* SelfOverlap._compute: self.grid, self.value = gcf_offset(...); a value
\* acf[t] / cnt[t] is kept as the pair <<acf[t], cnt[t]>>
QstCompute ==
    /\ pc = "arrays" /\ engine = "qst"
    /\ LET r  == gcf_offset(discrete_tgrid, self_skip, steps, pos_unf)
           dt == Sorted(DOMAIN r[1])
       IN  /\ acf' = r[1] /\ cnt' = r[2]
           /\ t_sorted' = dt
           /\ value' = [k \in 1..Len(dt) |-> <<r[1][dt[k]], r[2][dt[k]]>>]
    /\ pc' = "done"
    /\ UNCHANGED <<j, value_nonorm>>
    /\ UNCHANGED <<extVars, tau, skVars, trajVars, cfgVars, arrVars, rhoVars,
                   discrete_tgrid>>

NextGcf == QstConstruct \/ QstSetupArrays \/ QstCompute

SpecGcf == InitGcf /\ [][NextGcf]_vars



(***************************************************************************)
(* Vocabulary of the claims about the time-origin grid.                    *)
(***************************************************************************)
GridBuilt == pc = "grid"

Pairs == Range(discrete_tgrid)

\* steps[off+lag] - steps[off]
Diff(p) == steps[p[1] + p[2] + 1] - steps[p[1] + 1]

\* the pairs the double loop visits
ScannedPairs ==
    {<<off, i - off>> : off \in 0..(block_period - 1), i \in 0..(Len(steps) - 1)}
    \cap {p \in (0..MaxP) \X (-MaxFrames..MaxFrames) :
            p[2] >= 0 /\ p[1] + p[2] < Len(steps) - p[1]}

\* the pairs observable in the sequence: off in [0,P), off+lag < len(steps)
ObservablePairs ==
    {p \in (0..(block_period - 1)) \X (0..(Len(steps) - 1)) :
        p[1] + p[2] < Len(steps)}

\* the step sequence repeats with period P, shifted by a constant
IsPeriodic(st, P) ==
    \A i \in 0..(Len(st) - 1) :
        i + P < Len(st) => st[i + P + 1] - st[i + 1] = st[P + 1] - st[1]

\* the order in which the double loop meets the pairs
ScannedBefore(p, q) == p[1] < q[1] \/ (p[1] = q[1] /\ p[2] <= q[2])

\* p is what the code returns for the rounded request r
BestForRounded(p, r) ==
    /\ p \in ScannedPairs
    /\ \A q \in ScannedPairs :
        \/ Abs(Diff(p) - r) < Abs(Diff(q) - r)
        \/ Abs(Diff(p) - r) = Abs(Diff(q) - r) /\ Diff(p) < Diff(q)
        \/ Diff(p) = Diff(q) /\ ScannedBefore(p, q)

\* C3 (as amended): for each requested time the grid holds the scanned pair
\* whose step difference is closest to the rounded request
\* int(round(t/timestep)); of two equally close differences the smaller one
\* is taken, and of the pairs that realize it the first one scanned
\* (smallest offset); the grid holds nothing else.
C3_ClosestToRounded ==
    GridBuilt =>
        /\ \A n \in t_grid : \E p \in Pairs : BestForRounded(p, PyRound(n))
        /\ \A p \in Pairs : \E n \in t_grid : BestForRounded(p, PyRound(n))

\* a tie between two equally close differences was resolved
C3_Witness ==
    /\ GridBuilt
    /\ \E n \in t_grid : \E p \in Pairs : \E q \in ScannedPairs :
        /\ BestForRounded(p, PyRound(n))
        /\ Diff(q) # Diff(p)
        /\ Abs(Diff(q) - PyRound(n)) = Abs(Diff(p) - PyRound(n))

\* C3 (as stated): for each requested time t the grid holds the pair whose
\* step difference is closest to t/timestep among the candidates, and of
\* equally close candidates the one of smallest lag.
C3_ClosestToRequested ==
    GridBuilt =>
        \A n \in t_grid : \E p \in Pairs : \A q \in ScannedPairs :
            \/ Abs(Diff(p) * TDen - n) < Abs(Diff(q) * TDen - n)
            \/ Abs(Diff(p) * TDen - n) = Abs(Diff(q) * TDen - n) /\ p[2] <= q[2]

\* C4: on a periodic step sequence every pair of the grid is in range, is the
\* pair recorded for the step difference steps[offset+lag] - steps[offset] it
\* realizes, and every origin i0 congruent to its offset (mod P) with i0+lag
\* in range gives that same step difference.
C4_OriginsReproduceLag ==
    (GridBuilt /\ IsPeriodic(steps, block_period)) =>
        \A p \in Pairs :
            /\ p[2] >= 0 /\ p[1] + p[2] < Len(steps)
            /\ Diff(p) \in DOMAIN off_samp(steps, block_period)
            /\ off_samp(steps, block_period)[Diff(p)] = p
            /\ \A i0 \in 0..(Len(steps) - 1) :
                (i0 % block_period = p[1] % block_period /\ i0 + p[2] < Len(steps))
                    => steps[i0 + p[2] + 1] - steps[i0 + 1] = Diff(p)

\* a pair of positive offset and lag has a second origin one period later
C4_Witness ==
    /\ GridBuilt /\ IsPeriodic(steps, block_period)
    /\ \E p \in Pairs :
        p[1] >= 1 /\ p[2] >= 1 /\ p[1] + block_period + p[2] < Len(steps)

\* C5: the grid holds no pair twice and is no longer than the number of
\* distinct rounded requests.
C5_NoDuplicatePairs ==
    GridBuilt =>
        /\ \A a, b \in DOMAIN discrete_tgrid :
            discrete_tgrid[a] = discrete_tgrid[b] => a = b
        /\ Len(discrete_tgrid) <= Cardinality(i_grid(t_grid))

\* two requested times round to the same lag, and two distinct rounded lags
\* match the same step difference
C5_Witness ==
    /\ GridBuilt
    /\ Cardinality(i_grid(t_grid)) < Cardinality(t_grid)
       \/ Len(discrete_tgrid) < Cardinality(i_grid(t_grid))

\* every requested time is a step difference observable in the sequence
AllRealizable ==
    \A n \in t_grid : \E p \in ObservablePairs : Diff(p) * TDen = n

\* C6 (as stated): on a periodic sequence, when every requested time is a
\* realizable step difference, every pair reproduces a requested time
\* exactly and every requested time is represented.
C6_RoundTrip ==
    (GridBuilt /\ IsPeriodic(steps, block_period) /\ AllRealizable) =>
        /\ \A p \in Pairs : Diff(p) * TDen \in t_grid
        /\ \A n \in t_grid : \E p \in Pairs : Diff(p) * TDen = n

\* C7 (as stated): the candidate set holds every step difference observable
\* with off in [0,P) and off+lag < len(steps).
C7_AllDifferencesScanned ==
    GridBuilt =>
        \A p \in ObservablePairs : Diff(p) \in DOMAIN off_samp(steps, block_period)

SelfDone == pc = "done" /\ engine = "fskt"

CollDone == pc = "done" /\ engine = "fkt"

HasLagZero == <<0, 0>> \in Range(discrete_tgrid)

\* the (grid pair, origin) samples of step difference dt, for a stride skip
OriginSamples(dt, skip) ==
    {s \in (1..Len(discrete_tgrid)) \X (0..(NFrames - 1)) :
        LET off == discrete_tgrid[s[1]][1]
            i   == discrete_tgrid[s[1]][2]
        IN  /\ s[2] >= off /\ (s[2] - off) % skip = 0 /\ s[2] + i < NFrames
            /\ StepDiff(s[2], i) = dt}

\* the particle-samples of shell kk (1-based) and step difference dt among
\* the particles 0..np-1: <<particle, selected vector, grid pair, origin>>
ParticleSamples(kk, dt, np) ==
    {<<p, q, s[1], s[2]>> :
        p \in 0..(np - 1), q \in 1..Len(k_selected(kk - 1)),
        s \in OriginSamples(dt, SelfSkip)}

\* what a particle-sample adds to the sum: the real part of its product
SampleTerm(kk, c) ==
    SelfTerm(c[4], discrete_tgrid[c[3]][2], c[1], kvec[kk][k_selected(kk - 1)[c[2]] + 1])[1]

RECURSIVE SumOfSamples(_, _)
SumOfSamples(kk, S) ==
    IF S = {} THEN 0
    ELSE LET c == CHOOSE x \in S : TRUE
         IN  SampleTerm(kk, c) + SumOfSamples(kk, S \ {c})

\* the step differences of the grid that have at least one origin
GridDiffs(skip) ==
    {dt \in 0..steps[NFrames] : OriginSamples(dt, skip) # {}}

\* C1 (as amended): after SelfIntermediateScattering._compute the first
\* entry of value[kk] is exactly 1 for every shell whenever the discrete
\* grid holds the lag-0 pair, and then it is the entry of lag 0; on a grid
\* without lag 0 it is 1 unless the sum accumulated at the least lag is 0,
\* and then it is nan.
C1_FirstEntryOneWithLagZero ==
    SelfDone =>
        \A kk \in 1..NShells :
            Len(value[kk]) >= 1 =>
                /\ HasLagZero => (t_sorted[1] = 0 /\ value[kk][1] = One)
                /\ value[kk][1] = IF acf[kk][t_sorted[1]] = <<0, 0>> THEN NaN ELSE One

\* a grid with lag 0 and a later lag whose value differs from 1
C1_Witness ==
    /\ SelfDone /\ HasLagZero
    /\ Len(value[1]) >= 2 /\ value[1][1] = One /\ value[1][2] # One

\* C1 (as stated): after SelfIntermediateScattering._compute the first entry
\* of value[kk] is exactly 1 for every shell, whatever the time grid.
C1_FirstEntryOne ==
    SelfDone => \A kk \in 1..NShells : Len(value[kk]) >= 1 => value[kk][1] = One

\* the density of some selected wave vector of shell kk is not 0 at some
\* origin of lag 0
SomeDensity(kk) ==
    \E q \in 1..Len(k_selected(kk - 1)) : \E s \in OriginSamples(0, block_period) :
        rho_0[s[2] + 1][kvec[kk][k_selected(kk - 1)[q] + 1]] # <<0, 0>>

\* C2 (as amended): after IntermediateScattering._compute with identical
\* filters the entry of value[kk] at lag 0 is exactly 1 for every shell
\* in which the density of some selected wave vector is non-zero at some
\* origin; in a shell where all of them are exactly 0 the entry is nan.
C2_LagZeroOneUnlessNoDensity ==
    (CollDone /\ shared) =>
        \A kk \in 1..NShells : \A q \in 1..Len(t_sorted) :
            t_sorted[q] = 0 =>
                /\ q = 1
                /\ value[kk][q] = IF SomeDensity(kk) THEN One ELSE NaN

\* identical filters, a grid with lag 0 and a later lag of another value
C2_Witness ==
    /\ CollDone /\ shared /\ HasLagZero
    /\ Len(value[1]) >= 2 /\ value[1][1] = One /\ value[1][2] # One

\* C2 (as stated): after IntermediateScattering._compute with identical
\* filters the entry of value[kk] at lag 0 is exactly 1 for every shell.
C2_LagZeroOne ==
    (CollDone /\ shared) =>
        \A kk \in 1..NShells : \A q \in 1..Len(t_sorted) :
            t_sorted[q] = 0 => value[kk][q] = One

\* C9: while the step sequence is not periodic with the block size the
\* constructor can only fail: the instance never gets a time grid and never
\* goes beyond the constructor.
C9_NoGridUnlessPeriodic ==
    ~IsPeriodic(steps, block_period) =>
        /\ discrete_tgrid = NoGrid
        /\ pc \in {"new", "ctor_error"}

\* a constructor has failed on a step sequence that is not periodic
C9_Witness ==
    /\ pc = "ctor_error" /\ engine \in {"fskt", "fkt"}
    /\ ~IsPeriodic(steps, block_period)

\* the particles whose blocks have been accumulated
ParticlesDone == Min(j, SelfNPart)

\* C10: in SelfIntermediateScattering._compute the count of a shell and lag
\* is the number of particle-samples (one per particle, per origin, per
\* selected wave vector) that were added to the sum of that shell and lag,
\* the sum is the sum of their terms, and the value before the lag-0
\* renormalization is sum/count.
C10_CountIsParticleSamples ==
    (engine = "fskt" /\ pc \in {"blocks", "normalized"}) =>
        \A kk \in 1..NShells :
            /\ DOMAIN cnt[kk] = DOMAIN acf[kk]
            /\ DOMAIN cnt[kk] = IF ParticlesDone = 0 THEN {} ELSE GridDiffs(SelfSkip)
            /\ \A dt \in DOMAIN cnt[kk] :
                LET S == ParticleSamples(kk, dt, ParticlesDone) IN
                /\ cnt[kk][dt] = Cardinality(S)
                /\ acf[kk][dt] = <<SumOfSamples(kk, S), 0>>
            /\ pc = "normalized" =>
                \A q \in 1..Len(t_sorted) :
                    LET S == ParticleSamples(kk, t_sorted[q], SelfNPart) IN
                    value[kk][q] = Num(SumOfSamples(kk, S), Cardinality(S), 0)

\* a count made of several particles, vectors and origins
C10_Witness ==
    /\ engine = "fskt" /\ pc = "normalized"
    /\ SelfNPart >= 2 /\ Len(k_selected(0)) >= 2
    /\ \E dt \in DOMAIN cnt[1] :
        /\ Cardinality(OriginSamples(dt, SelfSkip)) >= 2
        /\ cnt[1][dt] = 2 * SelfNPart * Cardinality(OriginSamples(dt, SelfSkip))
        /\ acf[1][dt][1] # cnt[1][dt]

\* the collective engine has accumulated its sums and counts
CollAccumulated == engine = "fkt" /\ pc \in {"correlated", "done"}

\* C11 (as amended): in IntermediateScattering._compute the count of a shell
\* and lag is one per contribution to the sum: the number of origin samples
\* of that lag times the number of selected wave vectors of the shell,
\* whatever the number of particles.
C11_CountIsVectorOrigins ==
    CollAccumulated =>
        \A kk \in 1..NShells :
            /\ DOMAIN cnt[kk] = GridDiffs(block_period)
            /\ \A dt \in DOMAIN cnt[kk] :
                cnt[kk][dt] = Len(k_selected(kk - 1))
                                * Cardinality(OriginSamples(dt, block_period))

\* several particles, two selected wave vectors and two origins of a lag
C11_Witness ==
    /\ CollAccumulated /\ Len(pos_0[1]) >= 2 /\ Len(k_selected(0)) = 2
    /\ \E dt \in DOMAIN cnt[1] :
        /\ Cardinality(OriginSamples(dt, block_period)) >= 2
        /\ cnt[1][dt] = 2 * Cardinality(OriginSamples(dt, block_period))

\* C11 (as stated): in IntermediateScattering._compute the count of a shell
\* and lag is the number of origin samples i0 of that lag.
C11_CountIsOrigins ==
    CollAccumulated =>
        \A kk \in 1..NShells : \A dt \in DOMAIN cnt[kk] :
            cnt[kk][dt] = Cardinality(OriginSamples(dt, block_period))

\* C12: in IntermediateScattering._compute with two different filters the
\* entries of value_nonorm are acf/cnt, with cnt the count of C11 that no
\* particle number enters, and the entries of value are those of
\* value_nonorm divided by the first of them, which is the entry of lag 0
\* whenever the grid holds lag 0.
C12_CrossNormalizedByOwnFirst ==
    (CollDone /\ ~shared) =>
        \A kk \in 1..NShells : \A q \in 1..Len(t_sorted) :
            LET dt == t_sorted[q]
                n  == Len(k_selected(kk - 1))
                        * Cardinality(OriginSamples(dt, block_period))
            IN  /\ value_nonorm[kk][q] = NumDiv(FloatOf(acf[kk][dt]), Num(n, 1, 0))
                /\ value[kk][q] = NumDiv(value_nonorm[kk][q], value_nonorm[kk][1])
                /\ HasLagZero => t_sorted[1] = 0

\* two filters, a cross curve that starts at a finite value other than 0 and
\* 1, and a later entry that the division changes
C12_Witness ==
    /\ CollDone /\ ~shared /\ HasLagZero /\ Len(t_sorted) >= 2
    /\ IsFinite(value_nonorm[1][1])
    /\ value_nonorm[1][1] # One /\ value_nonorm[1][1][1] # 0
    /\ value[1][1] = One
    /\ value[1][2] # value_nonorm[1][2]

(***************************************************************************)
(* Vocabulary of the claims about the structure factor.                    *)
(***************************************************************************)
SkEngines == {"sk", "sk_opt"}

\* the frames 0, skip, 2*skip, ... of the loop
SampledFrames == PyRange(0, NFrames, self_skip)

\* the samples of shell kk: <<frame, selected vector>>, in loop order
SkSamples(kk) ==
    Flatten([f \in 1..Len(SampledFrames) |->
                [q \in 1..Len(k_selected(kk - 1)) |-> <<SampledFrames[f], q>>]])

\* the particles (0-based) that filter c (0-based) keeps, all without a filter
FilterParticles(c) ==
    IF Len(cbk) = 0 THEN System(0)
    ELSE filter_species(System(0), cbk[Min(c, Len(cbk) - 1) + 1])

\* the density of filter c in frame i at wave vector ik, every particle
\* weighted by its own mean-subtracted field value when there is a field
RECURSIVE DensityOf(_, _, _, _)
DensityOf(parts, q, i, ik) ==
    IF q > Len(parts) THEN <<0, 0>>
    ELSE LET p == parts[q]
             w == IF field = <<>> THEN 1 ELSE field[i + 1][p + 1]
         IN  CAdd(CScale(w, RhoTerm(TrajPos(i, p), ik)), DensityOf(parts, q + 1, i, ik))

Density(c, i, ik) == DensityOf(FilterParticles(c), 1, i, ik)

\* the sum over samples of rho_0 * conj(rho_1), real part
RECURSIVE SumRho01(_, _, _)
SumRho01(kk, samples, acc) ==
    IF samples = <<>> THEN acc
    ELSE LET e == Head(samples)
             ik == SkVector(kk, e[2])
         IN  SumRho01(kk, Tail(samples),
                      FAdd(acc, RealOfProduct(Density(0, e[1], ik),
                                              conjugate(Density(1, e[1], ik)))))

\* the sum over samples of the density of filter c
RECURSIVE SumRho(_, _, _)
SumRho(c, kk, samples) ==
    IF samples = <<>> THEN <<0, 0>>
    ELSE CAdd(Density(c, Head(samples)[1], SkVector(kk, Head(samples)[2])),
              SumRho(c, kk, Tail(samples)))

\* <rho_0 rho_1*> - <rho_0><rho_1>*, the means taken as 0 without a field
Covariance(kk) ==
    LET n == Len(SkSamples(kk))
        a == NumDiv(FloatOf(SumRho01(kk, SkSamples(kk), <<0, 0>>)), Num(n, 1, 0))
        b == IF field = <<>> THEN Num(0, 1, 0)
             ELSE NumDiv(FloatOf(RealOfProduct(SumRho(0, kk, SkSamples(kk)),
                                               conjugate(SumRho(1, kk, SkSamples(kk))))),
                         Num(n * n, 1, 0))
    IN  NumSub(a, b)

\* C13 (as stated): StructureFactor._compute returns, and returns for every
\* shell [<rho_0 rho_1*> - <rho_0><rho_1>*] / sqrt(N_0*N_1) over the frames
\* 0, skip, 2*skip, ... and the selected wave vectors, with the densities of
\* the two filters (weighted by the field when there is one), for identical
\* filters, for two different filters, and with a scalar field.
C13_ValueIsCovariance ==
    (engine = "sk") =>
        /\ pc # "compute_error"
        /\ pc = "done" =>
            \A kk \in 1..NShells :
                /\ cnt[kk] = Len(SkSamples(kk))
                /\ value_nonorm[kk] = Covariance(kk)
                /\ value[kk] = OverSqrt(Covariance(kk),
                                        Len(FilterParticles(0)) * Len(FilterParticles(1)), 1)

\* C14: without a scalar field rho_av is 0 for every shell all through the
\* frame loop and after it, and the value before the division by the norm is
\* rho2_av/cnt with nothing subtracted.
C14_NoFieldNoMean ==
    (engine \in SkEngines /\ field_cfg = "none" /\ pc \in {"frame", "tabulate", "done"}) =>
        \A kk \in 1..NShells :
            /\ rho_av[kk] = <<0, 0>>
            /\ pc = "done" =>
                value_nonorm[kk] = NumDiv(FloatOf(rho2_av[kk]), Num(cnt[kk], 1, 0))

\* no field, the loop is over, and the densities that were sampled do not
\* sum to 0: the mean that is not subtracted is not 0
C14_Witness ==
    /\ engine = "sk" /\ field_cfg = "none" /\ pc = "done"
    /\ SumRho(0, 1, SkSamples(1)) # <<0, 0>>
    /\ rho_av[1] = <<0, 0>>
    /\ Len(tab_log) >= 2

\* C15: every tabulation of the exponentials of a frame uses wave vectors
\* set up for that very frame when the cell is variable, and the wave vectors
\* of the construction when it is not; the frames tabulated are 0, skip,
\* 2*skip, ...
C15_RebuildBeforeTabulate ==
    (engine \in SkEngines) =>
        /\ \A n \in 1..Len(tab_log) :
            /\ tab_log[n][1] = (n - 1) * self_skip
            /\ tab_log[n][2] = IF variable_cell THEN tab_log[n][1] ELSE -1
        /\ pc = "tabulate" => kvec_frame = IF variable_cell THEN it ELSE -1
        /\ ~variable_cell => kvec_frame = -1

\* a variable cell and a second frame tabulated with its own wave vectors
C15_Witness ==
    /\ engine \in SkEngines /\ variable_cell
    /\ Len(tab_log) >= 2 /\ tab_log[2][1] >= 1 /\ tab_log[2][2] = tab_log[2][1]

\* C16: when the wrapper cannot be imported StructureFactorOptimized never
\* enters the frame loop: nothing is tabulated or accumulated and grid,
\* value and value_nonorm stay as they were.
C16_NoFallback ==
    (engine = "sk_opt" /\ ~backend) =>
        /\ pc \in {"new", "ctor_error", "constructed", "setup_error", "arrays",
                   "import_error"}
        /\ tab_log = <<>> /\ rho2_av = <<>>
        /\ grid = <<>> /\ value = <<>> /\ value_nonorm = <<>>

\* the import has failed after a successful array setup
C16_Witness ==
    /\ engine = "sk_opt" /\ ~backend /\ pc = "import_error"
    /\ pos_0 # <<>> /\ value = <<>>

\* what StructureFactor._compute accumulates for shell kk over the frames
RECURSIVE SkReference(_, _, _)
SkReference(kk, frames, acc) ==
    IF frames = <<>> THEN acc
    ELSE SkReference(kk, Tail(frames), SkShell(Head(frames), kk, 1, acc))

\* StructureFactor._compute does not raise on the field of a sampled frame
SkReferenceReturns ==
    field = <<>> \/ \A f \in 1..Len(SampledFrames) : FieldFits(SampledFrames[f])

\* C17 (as stated): StructureFactorOptimized._compute ends with the sum of
\* rho_0 rho_1* and the count of every shell that StructureFactor._compute
\* accumulates on the same frames, filters, field and selection.
C17_SameAsReference ==
    (engine = "sk_opt" /\ pc = "done") =>
        /\ SkReferenceReturns
        /\ \A kk \in 1..NShells :
            LET r == SkReference(kk, SampledFrames,
                                 [av |-> <<0, 0>>, av2 |-> <<0, 0>>, n |-> 0])
            IN  /\ cnt[kk] = r.n
                /\ rho2_av[kk] = r.av2
                /\ rho_av[kk] = r.av

\* C20: while the steps of the field source differ from those of the
\* trajectory the constructor can only fail, and no field value has been
\* read or mean-subtracted: the instance holds no field.
C20_UnsyncedFieldRejected ==
    (engine \in SkEngines /\ FieldUnsynced) =>
        /\ field = <<>>
        /\ pc \in {"new", "ctor_error"}

\* the constructor has failed on a field source of as many frames as the
\* trajectory whose steps differ
C20_Witness ==
    /\ engine \in SkEngines /\ pc = "ctor_error" /\ FieldUnsynced
    /\ Len(th_steps) = Len(steps)

\* array setup has returned without raising
SetupReturned ==
    pc \in {"arrays", "blocks", "normalized", "tabulated", "correlated", "done",
            "compute_error"}

\* C19 (as stated): whenever a frame has no particle after filtering, array
\* setup raises before _compute starts: _compute never runs on arrays with
\* an empty frame, be they unfolded positions of a one-body engine or the
\* positions of either filter of a two-body engine.
C19_NullSamplesRejected ==
    SetupReturned =>
        IF engine = "fskt" THEN ~HasNullSample(pos_unf)
        ELSE ~HasNullSample(pos_0) /\ ~HasNullSample(pos_1)

C21_ZeroCountSkipped ==
    (engine = "fkt") =>
        /\ pc # "compute_error"
        /\ pc = "done" =>
            \A kk \in 1..NShells : \A q \in DOMAIN value_nonorm[kk] :
                value_nonorm[kk][q] # NaN

\* array setup of an engine of two bodies has returned
TwoBodyArrays ==
    /\ engine \in TwoBodyEngines
    /\ pc \in {"arrays", "tabulated", "correlated", "frame", "tabulate", "done",
               "compute_error", "import_error"}

\* the entries n of the log of expo_sphere made for frame f
CallsOfFrame(f) == {n \in DOMAIN expo_log : expo_log[n][1] = f}

\* C22: with at most one registered filter _pos_1 is _pos_0, every frame is
\* tabulated by one call of expo_sphere and the second table and density are
\* the first ones (rho_1 is rho_0 on return of _tabulate_rho); with two
\* registered filters every frame is tabulated by two calls, one per position
\* array, and rho_1 is an object of its own.
C22_SharedByReference ==
    TwoBodyArrays =>
        /\ shared <=> Len(cbk) <= 1
        /\ \A n \in DOMAIN expo_log :
            /\ expo_log[n][2] \in (IF shared THEN {0} ELSE {0, 1})
            /\ \A m \in DOMAIN expo_log : expo_log[m] = expo_log[n] => m = n
        /\ \A f \in 0..(NFrames - 1) :
            Cardinality(CallsOfFrame(f)) \in (IF shared THEN {0, 1} ELSE {0, 2})
        /\ (engine = "fkt" /\ pc \in {"tabulated", "correlated", "done", "compute_error"}) =>
            /\ rho_shared <=> shared
            /\ rho_shared => rho_1 = rho_0
            /\ \A f \in 0..(NFrames - 1) :
                Cardinality(CallsOfFrame(f)) = IF shared THEN 1 ELSE 2
        /\ engine \in {"sk", "sk_opt"} =>
            \A n \in DOMAIN tab_log :
                Cardinality(CallsOfFrame(tab_log[n][1])) = IF shared THEN 1 ELSE 2

\* no filter and several particles: the densities of three frames are
\* tabulated from three tables and shared
C22_Witness ==
    /\ engine = "fkt" /\ pc = "tabulated" /\ Len(cbk) = 0 /\ shared /\ rho_shared
    /\ Len(pos_0[1]) >= 2 /\ Len(expo_log) = 3 /\ NFrames = 3

\* what the block-by-block loop of one thread accumulates
Sequential == BlockByBlock(1, <<EmptyAcc, EmptyAcc>>)

Merged == pc = "merged"

\* no term is below the rounding of the sums
NoTinyTerm == \A b \in DOMAIN terms : \A q \in DOMAIN terms[b] : terms[b][q][2] = 0

C24_TrajectoryUntouched ==
    [][/\ steps' = steps /\ block_period' = block_period
       /\ npart' = npart /\ mover' = mover
       /\ (pc # "constructed" => arrVars' = arrVars)]_vars

\* C24: a whole do() of the collective engine with two filters has run and
\* the arrays still hold the filtered positions of the untouched trajectory
C24_Witness ==
    /\ pc = "written" /\ engine = "fkt" /\ Len(cbk) = 2 /\ npart = 2
    /\ pos_0 = FilteredPos(0) /\ pos_1 = FilteredPos(1)
    /\ Len(pos_0[1]) = 1

\* C29: do() writes only after _compute has filled the values and analyze
\* has run twice: the file written holds the computed values, the relaxation
\* times are there unless analyze raised ImportError, and a run in which it
\* did still ends with the file written
C29_WriteLast ==
    /\ out_file.data # <<>> => pc = "written"
    /\ pc = "written" =>
        /\ value # <<>>
        /\ out_file = [exists |-> TRUE, mtime |-> traj_mtime + 1, data |-> <<value>>]
        /\ called = "do" /\ need_update
        /\ tau = IF AnalyzeRaises THEN <<>> ELSE AnalyzeResult
    /\ pc \in {"computed", "analyzed"} => value # <<>> /\ out_file.data = <<>>

\* C29: the file is written although analyze raised ImportError twice
C29_Witness ==
    /\ pc = "written" /\ engine = "fskt" /\ ~helpers_ok
    /\ tau = <<>> /\ out_file.data = <<value>>

C25_FiltersWithinBodies ==
    /\ Len(cbk) <= nbodies
    /\ pc = "filter_error" => Len(cbk) = nbodies

(***************************************************************************)
(* gcf_offset.                                                             *)
(***************************************************************************)
\* the (grid pair, origin) couples with origin off + m*skip and partner
\* inside the trajectory whose step difference is dt
GcfValid(dt) ==
    {c \in (DOMAIN discrete_tgrid) \X (0..(NFrames - 1)) :
        LET off == discrete_tgrid[c[1]][1]
            i   == discrete_tgrid[c[1]][2]
        IN  /\ c[2] >= off /\ (c[2] - off) % self_skip = 0
            /\ c[2] + i < NFrames
            /\ steps[c[2] + i + 1] - steps[c[2] + 1] = dt}

\* C26: gcf_offset counts once every origin i0 = off + m*skip with
\* i0 + i < len(x) of every grid pair (off, i), so the step difference of
\* every grid pair is a bucket of the output
C26_EveryOriginCounted ==
    pc = "done" =>
        /\ \A q \in DOMAIN discrete_tgrid :
            (steps[discrete_tgrid[q][1] + discrete_tgrid[q][2] + 1]
                - steps[discrete_tgrid[q][1] + 1]) \in Range(t_sorted)
        /\ \A dt \in 0..(steps[NFrames] - steps[1]) :
            IF dt \in DOMAIN cnt THEN cnt[dt] = Cardinality(GcfValid(dt))
            ELSE GcfValid(dt) = {}

(***************************************************************************)
(* Particle blocks and origins.                                            *)
(***************************************************************************)
\* the (selected wave vector, grid pair, origin) triples of shell kk1 whose
\* step difference is dt
SelfTriples(kk1, dt) ==
    {c \in (1..Len(k_selected(kk1 - 1))) \X (DOMAIN discrete_tgrid) \X (0..(NFrames - 1)) :
        LET off == discrete_tgrid[c[2]][1]
            i   == discrete_tgrid[c[2]][2]
        IN  /\ c[3] \in Range(Origins(off, i, NFrames, SelfSkip))
            /\ StepDiff(c[3], i) = dt}

\* C27: the particle blocks [j, j+block) of the self part, block =
\* min(20, N), hold 20 particles at most, follow each other without gap or
\* overlap from particle 0, and once all are done every particle 0..N-1 is
\* in exactly one block and every count is N times the number of (selected
\* wave vector, grid pair, origin) triples of its bucket
C27_BlocksPartition ==
    (engine = "fskt" /\ pc \in {"blocks", "normalized", "done"}) =>
        /\ \A b \in DOMAIN block_log :
            /\ 0 <= block_log[b][1] /\ block_log[b][1] < block_log[b][2]
            /\ block_log[b][2] <= SelfNPart
            /\ block_log[b][2] - block_log[b][1] <= BlockMax
            /\ block_log[b][1] = IF b = 1 THEN 0 ELSE block_log[b - 1][2]
        /\ pc \in {"normalized", "done"} =>
            /\ \A p \in 0..(SelfNPart - 1) :
                Cardinality({b \in DOMAIN block_log :
                    block_log[b][1] <= p /\ p < block_log[b][2]}) = 1
            /\ \A kk1 \in 1..NShells : \A dt \in DOMAIN cnt[kk1] :
                cnt[kk1][dt] = SelfNPart * Cardinality(SelfTriples(kk1, dt))

\* C27: 41 particles went through the blocks [0,20), [20,40), [40,41)
C27_Witness ==
    /\ engine = "fskt" /\ pc = "done" /\ SelfNPart = 41
    /\ block_log = << <<0, 20>>, <<20, 40>>, <<40, 41>> >>
    /\ \E dt \in DOMAIN cnt[1] : cnt[1][dt] >= 82

\* the stride of the origin loop of the engine
EngineSkip == IF engine = "fskt" THEN SelfSkip ELSE block_period

\* C28: for every pair (off, lag) of the grid of a periodic step sequence
\* the origin loop of the engine visits an origin at least, every origin
\* i0 has i0 >= off, i0 + lag < number of frames and, when the block period
\* P > 1, i0 = off modulo P; and once accumulated, the count of every
\* (shell, lag) bucket of a shell with a selected wave vector is positive
C28_OriginsInBounds ==
    pc \notin {"new", "ctor_error"} =>
        \A g \in DOMAIN discrete_tgrid :
            LET off == discrete_tgrid[g][1]
                i   == discrete_tgrid[g][2]
                org == Origins(off, i, NFrames, EngineSkip)
            IN  /\ Len(org) >= 1
                /\ \A o \in DOMAIN org :
                    /\ org[o] >= off /\ org[o] + i < NFrames
                    /\ block_period > 1 => (org[o] - off) % block_period = 0
                /\ pc \in {"normalized", "done"} =>
                    \A kk1 \in 1..NShells :
                        Len(k_selected(kk1 - 1)) > 0 =>
                            /\ StepDiff(off, i) \in DOMAIN cnt[kk1]
                            /\ cnt[kk1][StepDiff(off, i)] > 0

\* C28: a grid pair of offset 1 on a trajectory of block period 2 has been
\* accumulated by the collective engine
C28_Witness ==
    /\ engine = "fkt" /\ pc = "done" /\ block_period = 2
    /\ \E g \in DOMAIN discrete_tgrid : discrete_tgrid[g][1] = 1
    /\ \A kk1 \in 1..NShells : \A dt \in DOMAIN cnt[kk1] : cnt[kk1][dt] > 0

====
